---------------------------- MODULE Spec2Model ----------------------------
(* A model of the 13F extraction engine of mario-project:                  *)
(*   - sec_get, the retrying fetcher (core/runner_acsn.py);                *)
(*   - ProcessACSN.get_parser and its four strategies;                     *)
(*   - process_one_file, the per-file worker pool                          *)
(*     (scripts/update_new_forms_parallel.py);                             *)
(*   - run handing the entries to save_data, check_value_multiplies,       *)
(*     llm_parser.get_records, and sec_get called by concurrent workers.   *)
(*   - ProcessACSN.run on one row, from the index page to save_data, and   *)
(*     parse_line of parser3 on one line.                                  *)
(* Each part has its own specification over the shared variables; the      *)
(* variables of the other parts stay at their initial values.              *)
EXTENDS Integers, Sequences, FiniteSets, TLC

(***************************************************************************)
(* State                                                                   *)
(***************************************************************************)

\* sec_get
VARIABLES
    attempt,         \* the loop variable of sec_get: index of the current attempt
    slept,           \* TRUE once time.sleep of the current attempt has returned
    last_response,   \* sec_get's last_response
    last_exception,  \* sec_get's last_exception
    sleeps,          \* the arguments of the time.sleep calls so far, in order
    requests,        \* the requests.get calls so far: identity presented, outcome
    fstate,          \* "running", "returned" or "raised"
    fresult          \* what sec_get returned or raised

fetchVars == <<attempt, slept, last_response, last_exception, sleeps, requests,
               fstate, fresult>>

\* get_parser
VARIABLES
    req_text,        \* the document text get_parser is called on
    gpc,             \* where the call is: "parser", "parser2", "parser3", "select",
                     \* "llm", "returned", "raised", "saved" ("idle": no call)
    gp_records,      \* the list records of get_parser, as far as it is built
    record_parser,   \* self.record["parser"]; 0 while the key is not set
    result,          \* what get_parser returned
    pending,         \* the fragments parser_llm has still to submit, in order
    table_res,       \* table_res of parser_llm
    submitted,       \* the fragments submitted so far and what the capability did
    first            \* the outcome of the first call, once a second one is made

extractVars == <<req_text, gpc, gp_records, record_parser, result, pending,
                 table_res, submitted, first>>

\* process_one_file
VARIABLES
    record_workers,  \* the argument record_workers
    rpc,             \* per filing, where its run_one_record is
    record,          \* per filing, self.record, which is the caller's row itself
                     \* (self.record = row): its accession number and what run sets
    futures,         \* per filing, what its future holds once it is done
    collected,       \* the filings whose future the collecting loop has taken
    log_entries,     \* log_entries of process_one_file
    errors,          \* errors of process_one_file
    n_ok,            \* n_ok of process_one_file
    bstate,          \* "collecting", "returned" or "raised"
    output           \* what process_one_file returned

batchVars == <<record_workers, rpc, record, futures, collected, log_entries, errors,
               n_ok, bstate, output>>

\* run, after get_info_table has returned
VARIABLES
    info_table_len,  \* self.record["info_table_len"]; -1 while the key is not set
    df_index         \* the index of df in save_data after dropna: the positions
                     \* (from 0) of the rows of info_table_records it keeps

saveVars == <<info_table_len, df_index>>

\* check_value_multiplies
VARIABLES
    response,        \* what sec_get(url) returned to check_value_multiplies
    mvc,             \* "called" or "returned" ("idle": no call)
    value_multiplies \* what check_value_multiplies returned

multVars == <<response, mvc, value_multiplies>>

\* llm_parser.get_records
VARIABLES
    llm_env,         \* LLM_PARSER_MODEL, whether GEMINI_API_KEY is set, and whether
                     \* the provider's package can be imported
    llm_table_str,   \* the argument table_str of get_records
    glc,             \* "called", "generate", "run", "returned", "raised" ("idle")
    n_run,           \* how many times run_async has awaited self._run()
    crunner_output,  \* self.output of the CRunner
    get_records_res  \* what get_records returned or raised

llmVars == <<llm_env, llm_table_str, glc, n_run, crunner_output, get_records_res>>

\* sec_get called by the workers of run
VARIABLES
    file_workers,    \* args.file_workers
    pool             \* per worker, the sec_get call it is in: its loop variable
                     \* attempt, where it is ("send", "flight", "sleep",
                     \* "returned"), the time.sleep arguments and the identities
                     \* presented so far, and whether it is the worker's first call

poolVars == <<file_workers, pool>>

\* process_one_file: what it is called on
VARIABLES
    csv_acsns,       \* df["accessionNumber"] of the downloaded file, in row order
    existing_acsns   \* the argument existing_acsns

fileVars == <<csv_acsns, existing_acsns>>

\* ProcessACSN.run
VARIABLES
    index_response,  \* what sec_get does on the index page of the filing
    at_run,          \* where run is: "start", "index", "multiplies", "info_table",
                     \* "save", "returned" ("idle": no run)
    index_res,       \* index_res of run
    full_txt_url,    \* self.full_txt_url
    sec_get_urls,    \* the urls check_value_multiplies and get_info_table fetch
    self_record,     \* self.record, as far as run writes it
    save_data_got    \* self.info_table_records when save_data is called

runVars == <<index_response, at_run, index_res, full_txt_url, sec_get_urls,
             self_record, save_data_got>>

\* parse_line of parser3 on one line
VARIABLES
    line_tokens,     \* the words after the cusip of the line parse_line is given
    parse_line_got   \* what parse_line returned or raised

lineVars == <<line_tokens, parse_line_got>>

vars == <<fetchVars, extractVars, batchVars, saveVars, multVars, llmVars, poolVars,
          fileVars, runVars, lineVars>>

\* What the actions of one part leave alone.
outsideFetch == <<extractVars, batchVars, saveVars, multVars, llmVars, poolVars,
                  fileVars, runVars, lineVars>>
outsideExtract == <<fetchVars, batchVars, saveVars, multVars, llmVars, poolVars,
                    fileVars, runVars, lineVars>>
outsideBatch == <<fetchVars, extractVars, saveVars, multVars, llmVars, poolVars,
                  fileVars, runVars, lineVars>>
outsideMult == <<fetchVars, extractVars, batchVars, saveVars, llmVars, poolVars,
                 fileVars, runVars, lineVars>>
outsideLlm == <<fetchVars, extractVars, batchVars, saveVars, multVars, poolVars,
                fileVars, runVars, lineVars>>
outsidePool == <<fetchVars, extractVars, batchVars, saveVars, multVars, llmVars,
                 fileVars, runVars, lineVars>>
outsideSave == <<fetchVars, batchVars, multVars, llmVars, poolVars, fileVars, runVars,
                 lineVars>>
outsideRun == <<fetchVars, extractVars, batchVars, saveVars, multVars, llmVars,
                poolVars, fileVars, lineVars>>
outsideLine == <<fetchVars, extractVars, batchVars, saveVars, multVars, llmVars,
                 poolVars, fileVars, runVars>>

None == [kind |-> "none"]

\* The variables of a part that is not running.
IdleFetch ==
    /\ attempt = 0
    /\ slept = FALSE
    /\ last_response = None
    /\ last_exception = None
    /\ sleeps = <<>>
    /\ requests = <<>>
    /\ fstate = "idle"
    /\ fresult = None
IdleExtract ==
    /\ req_text = None
    /\ gpc = "idle"
    /\ gp_records = <<>>
    /\ record_parser = 0
    /\ result = <<>>
    /\ pending = <<>>
    /\ table_res = <<>>
    /\ submitted = <<>>
    /\ first = None
IdleSave ==
    /\ info_table_len = -1
    /\ df_index = <<>>
IdleMult ==
    /\ response = None
    /\ mvc = "idle"
    /\ value_multiplies = 0
IdleLlm ==
    /\ llm_env = None
    /\ llm_table_str = None
    /\ glc = "idle"
    /\ n_run = 0
    /\ crunner_output = None
    /\ get_records_res = None
IdlePool ==
    /\ file_workers = 0
    /\ pool = <<>>
IdleFile ==
    /\ csv_acsns = <<>>
    /\ existing_acsns = {}
IdleLine ==
    /\ line_tokens = <<>>
    /\ parse_line_got = None
IdleRun ==
    /\ index_response = None
    /\ at_run = "idle"
    /\ index_res = None
    /\ full_txt_url = <<>>
    /\ sec_get_urls = <<>>
    /\ self_record = <<>>
    /\ save_data_got = None
IdleBatch ==
    /\ record_workers = 0
    /\ rpc = <<>>
    /\ record = <<>>
    /\ futures = <<>>
    /\ collected = {}
    /\ log_entries = <<>>
    /\ errors = <<>>
    /\ n_ok = 0
    /\ bstate = "idle"
    /\ output = None

(***************************************************************************)
(* Text                                                                    *)
(* A str is a sequence of one-character strings.  Python positions are     *)
(* 0-based: s[k] of the code is s[k + 1] here.                             *)
(***************************************************************************)

Chars(s) == {s[i] : i \in 1..Len(s)}
\* str.isspace() of one character; " " is the only white space inside a line.
IsSpace(c) == c = " "
IsDigit(c) == c \in {"0", "1", "2", "3", "4", "5", "6", "7", "8", "9"}
DigitValue(c) ==
    CASE c = "0" -> 0 [] c = "1" -> 1 [] c = "2" -> 2 [] c = "3" -> 3 [] c = "4" -> 4
      [] c = "5" -> 5 [] c = "6" -> 6 [] c = "7" -> 7 [] c = "8" -> 8 [] c = "9" -> 9

UpperCase == <<"A", "B", "C", "D", "E", "F", "G", "H", "I", "J", "K", "L", "M",
               "N", "O", "P", "Q", "R", "S", "T", "U", "V", "W", "X", "Y", "Z">>
LowerCase == <<"a", "b", "c", "d", "e", "f", "g", "h", "i", "j", "k", "l", "m",
               "n", "o", "p", "q", "r", "s", "t", "u", "v", "w", "x", "y", "z">>
LowerChar(c) ==
    IF \E i \in 1..Len(UpperCase) : UpperCase[i] = c
    THEN LowerCase[CHOOSE i \in 1..Len(UpperCase) : UpperCase[i] = c]
    ELSE c
UpperChar(c) ==
    IF \E i \in 1..Len(LowerCase) : LowerCase[i] = c
    THEN UpperCase[CHOOSE i \in 1..Len(LowerCase) : LowerCase[i] = c]
    ELSE c
\* str.lower(), str.upper()
Lower(s) == [i \in 1..Len(s) |-> LowerChar(s[i])]
Upper(s) == [i \in 1..Len(s) |-> UpperChar(s[i])]

\* s[a:b] of the code, for 0 <= a: positions a .. b-1, cut at the end of s.
Slice(s, a, b) == SubSeq(s, a + 1, IF b > Len(s) THEN Len(s) ELSE b)

\* str.strip(), str.rstrip()
RStrip(s) ==
    LET keep == {i \in 1..Len(s) : ~IsSpace(s[i])}
    IN  IF keep = {} THEN <<>>
        ELSE SubSeq(s, 1, CHOOSE m \in keep : \A x \in keep : x <= m)
Strip(s) ==
    LET keep == {i \in 1..Len(s) : ~IsSpace(s[i])}
    IN  IF keep = {} THEN <<>>
        ELSE SubSeq(s, CHOOSE m \in keep : \A x \in keep : m <= x,
                       CHOOSE m \in keep : \A x \in keep : x <= m)

\* str.ljust(width)
LJust(s, width) ==
    IF Len(s) >= width THEN s
    ELSE s \o [i \in 1..(width - Len(s)) |-> " "]

\* needle in s
Contains(s, needle) ==
    \E i \in 0..(Len(s) - Len(needle)) : SubSeq(s, i + 1, i + Len(needle)) = needle
StartsWith(s, prefix) == Len(s) >= Len(prefix) /\ SubSeq(s, 1, Len(prefix)) = prefix
EndsWith(s, suffix) ==
    Len(s) >= Len(suffix) /\ SubSeq(s, Len(s) - Len(suffix) + 1, Len(s)) = suffix

\* s.replace(",", "")
RECURSIVE RemoveCommas(_)
RemoveCommas(s) ==
    IF s = <<>> THEN <<>>
    ELSE IF Head(s) = "," THEN RemoveCommas(Tail(s))
         ELSE <<Head(s)>> \o RemoveCommas(Tail(s))

\* A value of an entry: a str, or the float that float() made of one.
Str(s) == [t |-> "str", v |-> s]
Num(n) == [t |-> "num", v |-> n]
ValueError == [t |-> "ValueError"]

RECURSIVE DigitsValue(_)
DigitsValue(s) ==
    IF s = <<>> THEN 0
    ELSE 10 * DigitsValue(SubSeq(s, 1, Len(s) - 1)) + DigitValue(s[Len(s)])

\* float(s): surrounding white space is ignored, then an optional sign and
\* decimal digits; anything else raises ValueError.  (The texts of this model
\* hold no ".", exponent, "_", "inf" or "nan" spelling.)
Float(s) ==
    LET t == Strip(s)
        signed == t # <<>> /\ t[1] \in {"-", "+"}
        digits == IF signed THEN Tail(t) ELSE t
    IN  IF digits # <<>> /\ \A i \in 1..Len(digits) : IsDigit(digits[i])
        THEN Num(IF signed /\ t[1] = "-" THEN 0 - DigitsValue(digits)
                 ELSE DigitsValue(digits))
        ELSE ValueError

\* v = s.replace(",", "").strip() or "0"; float(v)
CleanNumber(s) ==
    LET v == Strip(RemoveCommas(s))
    IN  Float(IF v = <<>> THEN <<"0">> ELSE v)

(***************************************************************************)
(* Entries                                                                 *)
(***************************************************************************)

\* col_names of save_data: the 13 canonical fields.
col_names == <<"name_of_issuer", "title_of_class", "cusip", "figi", "value",
               "shares_or_percent_amount", "shares_or_percent_type", "put_call",
               "investment_discretion", "other_manager", "voting_authority_sole",
               "voting_authority_shared", "voting_authority_none">>
\* The five fields every strategy cleans.
NumericFields == <<"value", "shares_or_percent_amount", "voting_authority_sole",
                   "voting_authority_shared", "voting_authority_none">>
VotingFields == {"voting_authority_sole", "voting_authority_shared",
                 "voting_authority_none"}
SeqToSet(q) == {q[i] : i \in 1..Len(q)}

\* for k in (the five fields): entry[k] = float(cleaned entry[k]).  The result
\* is ValueError when float() raises on one of them.
RECURSIVE CoerceNumeric(_, _)
CoerceNumeric(entry, k) ==
    IF k > Len(NumericFields) THEN entry
    ELSE LET f == NumericFields[k]
             n == CleanNumber(entry[f].v)
         IN  IF n = ValueError THEN ValueError
             ELSE CoerceNumeric([entry EXCEPT ![f] = n], k + 1)

\* The retention test of Strategies 2 and 3, with the sum zeroed out: what the
\* code would do if the test were dropped.
VotingSumNonZeroDropped(entry) == TRUE

\* entry[sole] + entry[shared] + entry[none] != 0
VotingSumNonZero(entry) ==
    entry["voting_authority_sole"].v + entry["voting_authority_shared"].v
        + entry["voting_authority_none"].v # 0

(***************************************************************************)
(* Table blocks: what Strategies 2, 3 and 4 share                          *)
(* A table_str is held as the sequence of its lines (table_str is their    *)
(* join with "\n").                                                        *)
(***************************************************************************)

ISSUER == <<"i", "s", "s", "u", "e", "r">>
CUSIP == <<"c", "u", "s", "i", "p">>
TAG_C == <<"<", "c", ">">>

\* word in table_str.lower()
TableHas(table_str, word) ==
    \E i \in 1..Len(table_str) : Contains(Lower(table_str[i]), word)

\* table_str.strip("\n").splitlines()
StripSplitLines(table_str) ==
    LET keep == {i \in 1..Len(table_str) : table_str[i] # <<>>}
    IN  IF keep = {} THEN <<>>
        ELSE SubSeq(table_str, CHOOSE m \in keep : \A x \in keep : m <= x,
                               CHOOSE m \in keep : \A x \in keep : x <= m)

\* The index of the first line holding "<c>", 0 when there is none (None).
header_index(lines) ==
    LET hits == {i \in 1..Len(lines) : Contains(Lower(Strip(lines[i])), TAG_C)}
    IN  IF hits = {} THEN 0 ELSE CHOOSE m \in hits : \A x \in hits : m <= x

\* [m.start() for m in re.finditer("<", header_line)]
RECURSIVE col_positions_from(_, _)
col_positions_from(header_line, k) ==
    IF k >= Len(header_line) THEN <<>>
    ELSE (IF header_line[k + 1] = "<" THEN <<k>> ELSE <<>>)
            \o col_positions_from(header_line, k + 1)
col_positions(header_line) == col_positions_from(header_line, 0)

max_len(data_lines) ==
    LET lens == {Len(data_lines[i]) : i \in 1..Len(data_lines)}
    IN  CHOOSE m \in lens : \A x \in lens : x <= m

\* The noise filter with the comparison turned round (a "<=" for the ">=").
KeepsLineInverted(line, maxlen) == 10 * Len(Strip(line)) <= 3 * maxlen

\* len(line.strip()) >= max_len * 0.3
KeepsLine(line, maxlen) == 10 * Len(Strip(line)) >= 3 * maxlen

\* Lines under 30% of the longest are dropped, the rest padded to max_len.
data_lines(table_lines) ==
    LET raw == Tail(table_lines)
        m == max_len(raw)
        kept == SelectSeq(raw, LAMBDA line : KeepsLine(line, m))
    IN  [i \in 1..Len(kept) |-> LJust(kept[i], m)]

(***************************************************************************)
(* Strategy 1: parser                                                      *)
(* The information-table fragment is held as what the regular expression   *)
(* and ElementTree make of it: found (the pattern matched), wellformed     *)
(* (ET.fromstring accepted the match) and, per child of the root, its tag  *)
(* and its elements, each Absent, Empty (no text: <x/>) or Text.           *)
(***************************************************************************)

Absent == [k |-> "absent"]
Empty == [k |-> "empty"]
Text(s) == [k |-> "text", v |-> s]

AttributeError == [t |-> "AttributeError"]

\* info.findtext(path, default=default, namespaces=ns).strip()
findtext(info, path, default) ==
    CASE info[path].k = "absent" -> Strip(default)
      [] info[path].k = "empty" -> <<>>
      [] info[path].k = "text" -> Strip(info[path].v)

\* info.find(path).text.strip() if info.find(path) is not None else ""
find_text(info, path) ==
    CASE info[path].k = "absent" -> <<>>
      [] info[path].k = "empty" -> AttributeError
      [] info[path].k = "text" -> Strip(info[path].v)

\* The entry of one infoTable element before the commas are removed;
\* AttributeError when .text of a share sub-element is None.
info_entry(info) ==
    LET amount == find_text(info, "sshPrnamt")
        type == find_text(info, "sshPrnamtType")
    IN  IF amount = AttributeError \/ type = AttributeError THEN AttributeError
        ELSE [name_of_issuer |-> Str(findtext(info, "nameOfIssuer", <<>>)),
              title_of_class |-> Str(findtext(info, "titleOfClass", <<>>)),
              cusip |-> Str(findtext(info, "cusip", <<>>)),
              figi |-> Str(findtext(info, "figi", <<>>)),
              value |-> Str(findtext(info, "value", <<>>)),
              shares_or_percent_amount |-> Str(amount),
              shares_or_percent_type |-> Str(type),
              put_call |-> Str(findtext(info, "putCall", <<>>)),
              investment_discretion |-> Str(findtext(info, "investmentDiscretion", <<>>)),
              other_manager |-> Str(findtext(info, "otherManager", <<>>)),
              voting_authority_sole |-> Str(findtext(info, "Sole", <<"0">>)),
              voting_authority_shared |-> Str(findtext(info, "Shared", <<"0">>)),
              voting_authority_none |-> Str(findtext(info, "None", <<"0">>))]

\* The cleaning loop of parser with the replace left out.
strip_commasOmitted(entry) == entry

\* for k in (the five fields): entry[k] = entry[k].replace(",", "")
strip_commas(entry) ==
    [f \in DOMAIN entry |->
        IF f \in SeqToSet(NumericFields) THEN Str(RemoveCommas(entry[f].v))
        ELSE entry[f]]

\* The loop over root.findall("infoTable") from child k on.
RECURSIVE parser_children(_, _, _)
parser_children(children, k, data) ==
    IF k > Len(children) THEN [raised |-> FALSE, records |-> data]
    ELSE IF children[k].tag # "infoTable" THEN parser_children(children, k + 1, data)
    ELSE LET entry == info_entry(children[k].elems)
         IN  IF entry = AttributeError THEN [raised |-> TRUE, records |-> <<>>]
             ELSE parser_children(children, k + 1, Append(data, strip_commas(entry)))

\* parser(req_text), req_text given by its information-table fragment.
\* raised: ET.fromstring or .text.strip() raised, and parser has no try.
parser(xml) ==
    IF ~xml.found THEN [raised |-> FALSE, records |-> <<>>]
    ELSE IF ~xml.wellformed THEN [raised |-> TRUE, records |-> <<>>]
    ELSE parser_children(xml.children, 1, <<>>)

(***************************************************************************)
(* Strategy 2: parser2                                                     *)
(***************************************************************************)

entry_list == <<"name_of_issuer", "title_of_class", "cusip", "value",
                "shares_or_percent_amount", "shares_or_percent_type", "put_call",
                "investment_discretion", "other_manager", "voting_authority_sole",
                "voting_authority_shared", "voting_authority_none">>

\* entry = {k: "0" if "authority" in k or k in ("value",
\* "shares_or_percent_amount") else "" for k in entry_list}; entry["figi"] = ""
new_entry ==
    [f \in SeqToSet(col_names) |->
        IF f \in SeqToSet(NumericFields) THEN Str(<<"0">>) ELSE Str(<<>>)]

IndexError == -1

\* left of one column: start, moved back to the beginning of the word that
\* covers it; IndexError when row[start] is past the end of the row.
left_edge(row, start) ==
    IF start = 0 THEN 0
    ELSE IF start >= Len(row) THEN IndexError
    ELSE IF IsSpace(row[start + 1]) THEN start
    ELSE LET stops == {l \in 0..start : l = 0 \/ IsSpace(row[l])}
         IN  CHOOSE m \in stops : \A x \in stops : x <= m

\* right of column i (0-based): the next column's start moved back to the
\* nearest white space, or the end of the row for the last column.
right_edge(row, left, i, cols) ==
    IF i + 1 < Len(cols)
    THEN LET r0 == cols[i + 2]
         IN  IF r0 >= Len(row) THEN IndexError
             ELSE LET stops == {r \in left..r0 : r = left \/ IsSpace(row[r + 1])}
                  IN  CHOOSE m \in stops : \A x \in stops : x <= m
    ELSE Len(row)

\* entry[entry_list[i]] = row[left:right].strip(), inside the try of the loop.
put_column(entry, row, i, left, right) ==
    IF right = IndexError \/ i >= Len(entry_list) THEN entry
    ELSE [entry EXCEPT ![entry_list[i + 1]] = Str(Strip(Slice(row, left, right)))]

\* One column of the loop; a column whose slicing raises is skipped (except
\* Exception: pass).
slice_column(entry, row, cols, i, left) ==
    IF left = IndexError THEN entry
    ELSE put_column(entry, row, i, left, right_edge(row, left, i, cols))

\* The loop over col_positions from column i on.
RECURSIVE slice_columns(_, _, _, _)
slice_columns(entry, row, cols, i) ==
    IF i >= Len(cols) THEN entry
    ELSE slice_columns(slice_column(entry, row, cols, i, left_edge(row, cols[i + 1])),
                       row, cols, i + 1)

\* The voting test on a coerced entry; ValueError when float() had raised.
checked_entry(entry) ==
    IF entry = ValueError THEN ValueError
    ELSE [t |-> "entry", entry |-> entry, retained |-> VotingSumNonZero(entry)]

\* One data row of parser2: "skip" (blank row), ValueError (float() raised),
\* or the entry with retained telling whether it passed the voting test.
parser2_row(row, cols) ==
    IF Strip(row) = <<>> THEN [t |-> "skip"]
    ELSE checked_entry(CoerceNumeric(
             slice_columns(new_entry, row \o <<" ", " ", " ", " ", " ">>, cols, 0), 1))

\* records.append(entry) when the row gave an entry that passed the test.
append_retained(records, r) ==
    IF r.t = "entry" /\ r.retained THEN Append(records, r.entry) ELSE records

\* The rows of one block, from row k on.  raised: an exception reached the
\* outer try of parser2, which ends the whole run.
RECURSIVE parser2_rows(_, _, _, _)
RECURSIVE parser2_rows_after(_, _, _, _, _)
parser2_rows_after(rows, cols, k, records, r) ==
    IF r = ValueError THEN [records |-> records, raised |-> TRUE]
    ELSE parser2_rows(rows, cols, k + 1, append_retained(records, r))
parser2_rows(rows, cols, k, records) ==
    IF k > Len(rows) THEN [records |-> records, raised |-> FALSE]
    ELSE parser2_rows_after(rows, cols, k, records, parser2_row(rows[k], cols))

\* table_lines of one block: its lines from the header line on; none when no
\* line holds "<c>".
block_lines(table_str) ==
    LET lines == StripSplitLines(table_str)
        hi == header_index(lines)
    IN  IF hi = 0 THEN <<>> ELSE SubSeq(lines, hi, Len(lines))

\* The blocks from block k on.
RECURSIVE parser2_tables(_, _, _)
RECURSIVE parser2_tables_after(_, _, _)
parser2_tables_after(table_texts, k, done) ==
    IF done.raised THEN done ELSE parser2_tables(table_texts, k + 1, done.records)
parser2_block(table_texts, k, records, table_lines) ==
    IF Len(table_lines) < 2 THEN [records |-> records, raised |-> TRUE]
    ELSE parser2_tables_after(table_texts, k,
             parser2_rows(data_lines(table_lines), col_positions(table_lines[1]),
                          1, records))
parser2_tables(table_texts, k, records) ==
    IF k > Len(table_texts) THEN [records |-> records, raised |-> FALSE]
    ELSE IF ~TableHas(table_texts[k], ISSUER)
         THEN parser2_tables(table_texts, k + 1, records)
    ELSE parser2_block(table_texts, k, records, block_lines(table_texts[k]))

\* parser2 with its outer try removed: an exception leaves no records at all.
no_partial(done) == IF done.raised THEN <<>> ELSE done.records
parser2NoPartial(table_texts) == no_partial(parser2_tables(table_texts, 1, <<>>))

\* parser2(req_text), req_text given by its <table> blocks.
parser2(table_texts) == parser2_tables(table_texts, 1, <<>>).records

(***************************************************************************)
(* Strategy 3: parser3                                                     *)
(***************************************************************************)

QUOTE == "\""

\* _strip_wrapping_quotes(line)
_strip_wrapping_quotes(line) ==
    LET ln == Strip(line)
    IN  IF StartsWith(ln, <<QUOTE>>) /\ EndsWith(ln, <<QUOTE, ",">>)
        THEN RStrip(Slice(ln, 1, Len(ln) - 2))
        ELSE IF StartsWith(ln, <<QUOTE>>) /\ EndsWith(ln, <<QUOTE>>)
             THEN Slice(ln, 1, Len(ln) - 1)
             ELSE ln

IsNumChar(c) == IsDigit(c) \/ c = ","
MinOf(S) == CHOOSE m \in S : \A x \in S : m <= x
MaxIn(S) == CHOOSE m \in S : \A x \in S : x <= m

\* The last position of the run of white space that starts at position k.
SpaceRunEnd(s, k) ==
    MinOf({j \in k..Len(s) : j = Len(s) \/ ~IsSpace(s[j + 1])})
\* The last position of the run of characters satisfying Test(_) from k on.
RunEnd(s, k, Test(_)) ==
    MinOf({j \in k..Len(s) : j = Len(s) \/ ~Test(s[j + 1])})
NotSpace(c) == ~IsSpace(c)

\* re.match(r"^\s*(?P<name>.+?)\s{2,}(?P<title>.+?)\s{2,}(?P<cusip>\S+)\s*(?P<rest>.*)$", ln)
\* as the backtracking matcher decides it: \s* and \s{2,} take as much as a
\* match allows, name and title as little.  p0, a, b, c, d, e are the last
\* positions of \s*, name, \s{2,}, title, \s{2,} and cusip.
match_line(ln) ==
    LET n == Len(ln)
        Sp(k) == k >= 1 /\ k <= n /\ IsSpace(ln[k])
        \* where a title can end: two or more spaces follow, then a character.
        TE == {c \in 1..n : Sp(c + 1) /\ Sp(c + 2) /\ SpaceRunEnd(ln, c + 1) < n}
        \* where a name can end: two spaces follow and a title fits after them.
        NE == IF TE = {} THEN {}
              ELSE {a \in 1..n : Sp(a + 1) /\ Sp(a + 2) /\ a + 3 <= MaxIn(TE)}
        lead == IF n >= 1 /\ Sp(1) THEN SpaceRunEnd(ln, 1) ELSE 0
        P0 == {q \in 0..lead : \E a \in NE : a >= q + 1}
    IN  IF P0 = {} THEN [matched |-> FALSE]
        ELSE LET p0 == MaxIn(P0)
                 a == MinOf({x \in NE : x >= p0 + 1})
                 b == MaxIn({x \in (a + 2)..SpaceRunEnd(ln, a + 1) : x + 1 <= MaxIn(TE)})
                 c == MinOf({x \in TE : x >= b + 1})
                 d == SpaceRunEnd(ln, c + 1)
                 e == RunEnd(ln, d + 1, NotSpace)
                 f == IF Sp(e + 1) THEN SpaceRunEnd(ln, e + 1) ELSE e
             IN  [matched |-> TRUE,
                  name |-> SubSeq(ln, p0 + 1, a),
                  title |-> SubSeq(ln, b + 1, c),
                  cusip |-> SubSeq(ln, d + 1, e),
                  rest |-> SubSeq(ln, f + 1, n)]

\* An optional "\s*([\d,]+)?" at the head of s: the token taken ("" when
\* there is none) and what is left of s.
take_number(s) ==
    LET n == Len(s)
        ws == IF n >= 1 /\ IsSpace(s[1]) THEN SpaceRunEnd(s, 1) ELSE 0
    IN  IF ws < n /\ IsNumChar(s[ws + 1])
        THEN LET e == RunEnd(s, ws + 1, IsNumChar)
             IN  [token |-> SubSeq(s, ws + 1, e), left |-> SubSeq(s, e + 1, n)]
        ELSE [token |-> <<>>, left |-> SubSeq(s, ws + 1, n)]

\* re.findall(r"[\d,]+", s)
RECURSIVE numeric_tokens(_)
numeric_tokens(s) ==
    IF s = <<>> THEN <<>>
    ELSE IF IsNumChar(s[1])
         THEN LET e == RunEnd(s, 1, IsNumChar)
              IN  <<SubSeq(s, 1, e)>> \o numeric_tokens(SubSeq(s, e + 1, Len(s)))
         ELSE numeric_tokens(Tail(s))

\* s.split()
RECURSIVE split(_)
split(s) ==
    IF s = <<>> THEN <<>>
    ELSE IF IsSpace(s[1]) THEN split(Tail(s))
         ELSE LET e == RunEnd(s, 1, NotSpace)
              IN  <<SubSeq(s, 1, e)>> \o split(SubSeq(s, e + 1, Len(s)))

IsNumWord(w) == w # <<>> /\ \A i \in 1..Len(w) : IsNumChar(w[i])

\* re.sub(r"(?:\s+[\d,]+){%d}\s*$" % count, "", tail): when tail ends with
\* count numeric words, each after white space, they are cut off together
\* with the white space before them; otherwise tail is left as it is.
strip_trailing_numbers(tail, count) ==
    LET t == RStrip(tail)
        \* where the last count words of t begin, when they are numeric words
        \* and white space precedes the first of them.
        cut == {p \in 2..Len(t) :
                   /\ IsSpace(t[p - 1]) /\ ~IsSpace(t[p])
                   /\ LET ws == split(SubSeq(t, p, Len(t)))
                      IN  Len(ws) = count /\ \A i \in 1..count : IsNumWord(ws[i])}
    IN  IF cut = {} THEN tail
        ELSE LET p == MinOf(cut)
                 \* the leftmost match starts at the head of that white space
                 q == MinOf({x \in 1..(p - 1) : \A y \in x..(p - 1) : IsSpace(t[y])})
             IN  SubSeq(t, 1, q - 1)

SHARE_TYPES == {<<"S", "H">>, <<"P", "R", "N">>, <<"S", "H", "A", "R", "E", "S">>,
                <<"P", "R", "F">>}
PUT_CALLS == {<<"P", "U", "T">>, <<"C", "A", "L", "L">>, <<"P">>, <<"C">>}

\* The loop over text_part.split() from token k on.
RECURSIVE classify(_, _, _)
classify(tokens, k, acc) ==
    IF k > Len(tokens) THEN acc
    ELSE LET t == tokens[k]
             up == Upper(t)
         IN  IF acc.shares_or_percent_type = <<>> /\ up \in SHARE_TYPES
             THEN classify(tokens, k + 1, [acc EXCEPT !.shares_or_percent_type = t])
             ELSE IF acc.put_call = <<>> /\ up \in PUT_CALLS
                  THEN classify(tokens, k + 1, [acc EXCEPT !.put_call = t])
                  ELSE classify(tokens, k + 1,
                           [acc EXCEPT !.investment_discretion =
                               IF @ # <<>> THEN @ \o <<" ">> \o t ELSE t])

\* numeric_tokens[-k] when there are at least k tokens, else "".
from_end(tokens, k) == IF Len(tokens) >= k THEN tokens[Len(tokens) - k + 1] ELSE <<>>

\* from_end with the positions counted from the front.
from_front(tokens, k) == IF Len(tokens) >= k THEN tokens[k] ELSE <<>>

\* s.lstrip()
LStrip(s) ==
    SubSeq(s, (IF s # <<>> /\ IsSpace(s[1]) THEN SpaceRunEnd(s, 1) ELSE 0) + 1, Len(s))

\* The three word fields of parse_line, from what is left of the tail.
line_words(tail) ==
    classify(split(Strip(tail)), 1,
             [shares_or_percent_type |-> <<>>, put_call |-> <<>>,
              investment_discretion |-> <<>>])

\* The dict parse_line returns.
line_entry(m, g1, g2, nums, words) ==
    [name_of_issuer |-> Str(Strip(m.name)),
     title_of_class |-> Str(Strip(m.title)),
     cusip |-> Str(Strip(m.cusip)),
     value |-> Str(Strip(g1.token)),
     shares_or_percent_amount |-> Str(Strip(g2.token)),
     shares_or_percent_type |-> Str(words.shares_or_percent_type),
     put_call |-> Str(words.put_call),
     investment_discretion |-> Str(words.investment_discretion),
     other_manager |-> Str(from_end(nums, 4)),
     voting_authority_sole |-> Str(from_end(nums, 3)),
     voting_authority_shared |-> Str(from_end(nums, 2)),
     voting_authority_none |-> Str(from_end(nums, 1))]

\* numeric_tokens = re.findall(r"[\d,]+", tail); the trailing numbers are cut
\* off tail when there are any; the words of what is left are classified.
parse_numbers(m, g1, g2, tail, nums) ==
    line_entry(m, g1, g2, nums,
               line_words(IF nums # <<>> THEN strip_trailing_numbers(tail, Len(nums))
                          ELSE tail))
parse_tail(m, g1, g2, tail) == parse_numbers(m, g1, g2, tail, numeric_tokens(tail))
\* value and share amount: the optional numbers at the head of rest.
parse_amount(m, g1, g2) == parse_tail(m, g1, g2, LStrip(g2.left))
parse_value(m, g1) == parse_amount(m, g1, take_number(g1.left))
parse_match(m) == IF ~m.matched THEN ValueError ELSE parse_value(m, take_number(m.rest))

\* parse_line(line): ValueError when the line does not match, else the dict.
parse_line(line) == parse_match(match_line(_strip_wrapping_quotes(line)))

TOTAL == <<"t", "o", "t", "a", "l">>

\* A coerced entry of parser3; a ValueError of float() skips the line.
coerced_line(entry) ==
    IF entry = ValueError THEN [t |-> "skip"] ELSE checked_entry(entry)

\* What parser3 does with the dict of a line.
parsed_line(parsed) ==
    IF parsed = ValueError THEN [t |-> "skip"]
    ELSE IF Lower(parsed.name_of_issuer.v) = TOTAL THEN [t |-> "skip"]
    ELSE coerced_line(CoerceNumeric([f \in SeqToSet(col_names) |->
                                        IF f = "figi" THEN Str(<<>>) ELSE parsed[f]], 1))

\* One data line of parser3: "skip" (parse_line raised, a "total" line, or
\* float() raised), or the entry with retained telling whether it passed the
\* voting test.
parser3_line(line) == parsed_line(parse_line(line))

RECURSIVE parser3_lines(_, _, _)
parser3_lines(rows, k, records) ==
    IF k > Len(rows) THEN records
    ELSE parser3_lines(rows, k + 1, append_retained(records, parser3_line(rows[k])))

RECURSIVE parser3_tables(_, _, _)
parser3_block(table_texts, k, records, table_lines) ==
    IF Len(table_lines) < 2 THEN [records |-> records, raised |-> TRUE]
    ELSE parser3_tables(table_texts, k + 1,
                        parser3_lines(data_lines(table_lines), 1, records))
parser3_tables(table_texts, k, records) ==
    IF k > Len(table_texts) THEN [records |-> records, raised |-> FALSE]
    ELSE IF ~TableHas(table_texts[k], ISSUER)
         THEN parser3_tables(table_texts, k + 1, records)
    ELSE parser3_block(table_texts, k, records, block_lines(table_texts[k]))

\* parser3(req_text), req_text given by its <table> blocks.
parser3(table_texts) == parser3_tables(table_texts, 1, <<>>).records

(***************************************************************************)
(* Documents                                                               *)
(* A document text is held as what the patterns of the strategies find in  *)
(* it: xml, the information-table fragment; table_texts, the groups of     *)
(* re.findall(r"<table>(.*?)</table>", ...) in document order; prose, the  *)
(* text outside them.                                                      *)
(***************************************************************************)

\* "<S>   <C>  <C>   <C>    <C>    <C> <C> <C> <C> <C>    <C> <C>"
HEADER_12 ==
    <<"<", "S", ">", " ", " ", " ", "<", "C", ">", " ", " ", "<", "C", ">",
      " ", " ", " ", "<", "C", ">", " ", " ", " ", " ", "<", "C", ">", " ",
      " ", " ", " ", "<", "C", ">", " ", "<", "C", ">", " ", "<", "C", ">",
      " ", "<", "C", ">", " ", "<", "C", ">", " ", " ", " ", " ", "<", "C",
      ">", " ", "<", "C", ">">>
\* "<S>   <C>"
HEADER_2 ==
    <<"<", "S", ">", " ", " ", " ", "<", "C", ">">>
\* "NAME OF ISSUER"
TITLE_ISSUER ==
    <<"N", "A", "M", "E", " ", "O", "F", " ", "I", "S", "S", "U", "E", "R">>
\* "CUSIP LIST"
TITLE_CUSIP ==
    <<"C", "U", "S", "I", "P", " ", "L", "I", "S", "T">>
\* "ACME  COM  123   1,000  2,500  SH      SO  1   1,500  0   0"
ROW_ACME ==
    <<"A", "C", "M", "E", " ", " ", "C", "O", "M", " ", " ", "1", "2", "3",
      " ", " ", " ", "1", ",", "0", "0", "0", " ", " ", "2", ",", "5", "0",
      "0", " ", " ", "S", "H", " ", " ", " ", " ", " ", " ", "S", "O", " ",
      " ", "1", " ", " ", " ", "1", ",", "5", "0", "0", " ", " ", "0", " ",
      " ", " ", "0">>
\* "BETA  COM  456   10     5      SH      SO      0      7   0"
ROW_BETA ==
    <<"B", "E", "T", "A", " ", " ", "C", "O", "M", " ", " ", "4", "5", "6",
      " ", " ", " ", "1", "0", " ", " ", " ", " ", " ", "5", " ", " ", " ",
      " ", " ", " ", "S", "H", " ", " ", " ", " ", " ", " ", "S", "O", " ",
      " ", " ", " ", " ", " ", "0", " ", " ", " ", " ", " ", " ", "7", " ",
      " ", " ", "0">>
\* "ZERO  COM  789   10     5      SH      SO      0      0   0"
ROW_ZERO ==
    <<"Z", "E", "R", "O", " ", " ", "C", "O", "M", " ", " ", "7", "8", "9",
      " ", " ", " ", "1", "0", " ", " ", " ", " ", " ", "5", " ", " ", " ",
      " ", " ", " ", "S", "H", " ", " ", " ", " ", " ", " ", "S", "O", " ",
      " ", " ", " ", " ", " ", "0", " ", " ", " ", " ", " ", " ", "0", " ",
      " ", " ", "0">>
\* "GAMA  COM  321   N/A    5      SH      SO      3      0   0"
ROW_BAD ==
    <<"G", "A", "M", "A", " ", " ", "C", "O", "M", " ", " ", "3", "2", "1",
      " ", " ", " ", "N", "/", "A", " ", " ", " ", " ", "5", " ", " ", " ",
      " ", " ", " ", "S", "H", " ", " ", " ", " ", " ", " ", "S", "O", " ",
      " ", " ", " ", " ", " ", "3", " ", " ", " ", " ", " ", " ", "0", " ",
      " ", " ", "0">>
\* "x"
NOISE ==
    <<"x">>

\* A header and three data lines, one of them with all-zero voting counts.
T_THREE == <<<<>>, TITLE_ISSUER, HEADER_12, ROW_ACME, ROW_ZERO, ROW_BETA, <<>>>>
\* A value that is no number in the first row: float() raises in parser2.
T_BAD == <<TITLE_ISSUER, HEADER_12, ROW_BAD, ROW_ACME>>
\* Only a row with all-zero voting counts: Strategies 2 and 3 keep nothing.
T_ZERO == <<TITLE_ISSUER, HEADER_12, ROW_ZERO>>
\* The keyword "cusip" but not "issuer": a fragment for Strategy 4 only.
T_CUSIP == <<TITLE_CUSIP, ROW_ACME>>
\* No keyword at all.
T_PLAIN == <<NOISE>>
\* The keyword "issuer" but no line with "<c>".
T_NOHDR == <<TITLE_ISSUER, ROW_ACME>>
\* A header with two column markers only: parser2 reads no voting column.
T_SHORT == <<TITLE_ISSUER, HEADER_2, ROW_BETA, NOISE>>

\* The longest run of data lines in a generated block.
MaxRows == 2
\* The most children of the information-table root.
MaxChildren == 2

RowChoices == {ROW_ACME, ROW_ZERO, ROW_BAD}
RECURSIVE SeqsUpTo(_, _)
SeqsUpTo(S, n) ==
    IF n = 0 THEN {<<>>}
    ELSE LET shorter == SeqsUpTo(S, n - 1)
         IN  shorter \cup {Append(q, x) : q \in {r \in shorter : Len(r) = n - 1}, x \in S}

\* Blocks of a title, a header and up to MaxRows data lines.
GeneratedTables ==
    {<<TITLE_ISSUER, h>> \o rs : h \in {HEADER_12, HEADER_2},
                                 rs \in SeqsUpTo(RowChoices, MaxRows)}
CuratedTables == {T_THREE, T_BAD, T_ZERO, T_CUSIP, T_PLAIN, T_NOHDR, T_SHORT}
\* No block, one block, or two blocks.
TableTexts ==
    {<<>>} \cup {<<t>> : t \in GeneratedTables \cup CuratedTables}
           \cup {<<t, u>> : t \in CuratedTables, u \in CuratedTables}

InfoElements == {"nameOfIssuer", "titleOfClass", "cusip", "figi", "value",
                 "sshPrnamt", "sshPrnamtType", "putCall", "investmentDiscretion",
                 "otherManager", "Sole", "Shared", "None"}
\* An infoTable with every element but figi, putCall and otherManager.
INFO_FULL ==
    [tag |-> "infoTable",
     elems |-> [e \in InfoElements |->
        CASE e = "nameOfIssuer" -> Text(<<" ", "A", "C", "M", "E", " ">>)
          [] e = "titleOfClass" -> Text(<<"C", "O", "M">>)
          [] e = "cusip" -> Text(<<"1", "2", "3">>)
          [] e = "value" -> Text(<<"1", ",", "0", "0", "0">>)
          [] e = "sshPrnamt" -> Text(<<"2", ",", "5", "0", "0">>)
          [] e = "sshPrnamtType" -> Text(<<"S", "H">>)
          [] e = "investmentDiscretion" -> Text(<<"S", "O", "L", "E">>)
          [] e = "Sole" -> Text(<<"1", ",", "5", "0", "0">>)
          [] e = "Shared" -> Text(<<"0">>)
          [] e = "None" -> Text(<<"0">>)
          [] OTHER -> Absent]]
\* An infoTable without shrsOrPrnAmt and votingAuthority.
INFO_NO_VOTING ==
    [tag |-> "infoTable",
     elems |-> [e \in InfoElements |->
        CASE e = "nameOfIssuer" -> Text(<<"B", "E", "T", "A">>)
          [] e = "cusip" -> Text(<<"4", "5", "6">>)
          [] e = "value" -> Text(<<"7">>)
          [] OTHER -> Absent]]
\* An infoTable whose sshPrnamt is there but empty: <sshPrnamt/>.
INFO_EMPTY_AMOUNT ==
    [tag |-> "infoTable",
     elems |-> [e \in InfoElements |->
        CASE e = "nameOfIssuer" -> Text(<<"G", "A", "M", "A">>)
          [] e = "sshPrnamt" -> Empty
          [] e = "Sole" -> Text(<<"9">>)
          [] OTHER -> Absent]]
\* An infoTable whose nameOfIssuer is there but empty: <nameOfIssuer/>.
INFO_EMPTY_NAME ==
    [tag |-> "infoTable",
     elems |-> [e \in InfoElements |->
        CASE e = "nameOfIssuer" -> Empty
          [] e = "cusip" -> Text(<<"7", "8", "9">>)
          [] e = "value" -> Text(<<"5">>)
          [] e = "None" -> Text(<<"4">>)
          [] OTHER -> Absent]]
InfoChoices == {INFO_FULL, INFO_NO_VOTING, INFO_EMPTY_AMOUNT, INFO_EMPTY_NAME}

NO_XML == [found |-> FALSE, wellformed |-> FALSE, children |-> <<>>]
MALFORMED_XML == [found |-> TRUE, wellformed |-> FALSE, children |-> <<>>]
XmlChoices ==
    {NO_XML, MALFORMED_XML}
        \cup {[found |-> TRUE, wellformed |-> TRUE, children |-> c] :
                c \in SeqsUpTo(InfoChoices, MaxChildren)}

\* "Name of Issuer"
PROSE_ISSUER ==
    <<"N", "a", "m", "e", " ", "o", "f", " ", "I", "s", "s", "u", "e", "r">>
\* "Form 13F"
PROSE_PLAIN == <<"F", "o", "r", "m", " ", "1", "3", "F">>
ProseChoices == {PROSE_ISSUER, PROSE_PLAIN}

\* The documents: every fragment beside no block, a block Strategies 2 and 3
\* read entries from, or a block they read none from; and every choice of
\* blocks in a text without a fragment.
Docs ==
    [xml : XmlChoices, table_texts : {<<>>, <<T_THREE>>, <<T_ZERO>>}, prose : ProseChoices]
        \cup [xml : {NO_XML}, table_texts : TableTexts, prose : ProseChoices]

\* word in text.lower(), for the tag names of the fragment as well.
text_has(text, word) ==
    \/ Contains(Lower(text.prose), word)
    \/ \E i \in 1..Len(text.table_texts) : TableHas(text.table_texts[i], word)
    \/ \E i \in 1..Len(text.xml.children) :
          \/ word = ISSUER /\ text.xml.children[i].elems["nameOfIssuer"] # Absent
          \/ word = CUSIP /\ text.xml.children[i].elems["cusip"] # Absent

(***************************************************************************)
(* Strategy 4: parser_llm, and the external extraction capability          *)
(***************************************************************************)

\* An entry with the thirteen fields of Sec13FEntry.
LLM_FULL ==
    [f \in SeqToSet(col_names) |->
        CASE f = "name_of_issuer" -> Str(<<"A", "C", "M", "E">>)
          [] f = "cusip" -> Str(<<"1", "2", "3">>)
          [] f = "value" -> Str(<<"1", ",", "0", "0", "0">>)
          [] f = "shares_or_percent_amount" -> Str(<<"2", ",", "5", "0", "0">>)
          [] f = "voting_authority_sole" -> Str(<<" ", "1", ",", "5", "0", "0">>)
          [] f \in {"voting_authority_shared", "voting_authority_none"} -> Str(<<"0">>)
          [] OTHER -> Str(<<>>)]
\* An entry the schema accepts (every field is a str) whose value is "N/A".
LLM_WORDS == [LLM_FULL EXCEPT !["value"] = Str(<<"N", "/", "A">>)]
\* A dict with three of the keys only.
LLM_PARTIAL ==
    [name_of_issuer |-> Str(<<"B", "E", "T", "A">>),
     cusip |-> Str(<<"4", "5", "6">>),
     value |-> Str(<<>>)]

Raise == [kind |-> "raise"]
Return(entries) == [kind |-> "return", entries |-> entries]
\* What asyncio.run(llm_parser.get_records(fragment)) can do: raise (no key, no
\* network, time-out, the runner giving up), or return a list of dicts.
LlmResponses ==
    {Raise} \cup {Return(e) : e \in {<<>>, <<LLM_FULL>>, <<LLM_WORDS>>, <<LLM_PARTIAL>>,
                                     <<LLM_PARTIAL, LLM_FULL>>}}

Table(i) == [kind |-> "table", index |-> i]
Document == [kind |-> "document"]
HasKeyword(table_str) == TableHas(table_str, ISSUER) \/ TableHas(table_str, CUSIP)

RECURSIVE keyword_tables(_, _)
keyword_tables(table_texts, k) ==
    IF k > Len(table_texts) THEN <<>>
    ELSE (IF HasKeyword(table_texts[k]) THEN <<Table(k)>> ELSE <<>>)
            \o keyword_tables(table_texts, k + 1)

\* parser_llm falling back to the whole text when no block has a keyword.
fragmentsWholeText(text) ==
    IF keyword_tables(text.table_texts, 1) # <<>> THEN keyword_tables(text.table_texts, 1)
    ELSE IF text_has(text, ISSUER) \/ text_has(text, CUSIP) THEN <<Document>>
    ELSE <<>>

\* The fragments parser_llm submits, in order: the blocks with a keyword when
\* the text has blocks, else the whole text when it has a keyword.
fragments(text) ==
    IF text.table_texts # <<>> THEN keyword_tables(text.table_texts, 1)
    ELSE IF text_has(text, ISSUER) \/ text_has(text, CUSIP) THEN <<Document>>
    ELSE <<>>

\* entry.get(k, "0")
get(entry, k, default) == IF k \in DOMAIN entry THEN entry[k] ELSE default

\* for k in (the five fields): entry[k] = float(cleaned str(entry.get(k, "0")));
\* ValueError when float() raises.
RECURSIVE clean_entry(_, _)
clean_entry(entry, k) ==
    IF k > Len(NumericFields) THEN entry
    ELSE LET f == NumericFields[k]
             n == CleanNumber(get(entry, f, Str(<<"0">>)).v)
         IN  IF n = ValueError THEN ValueError
             ELSE clean_entry([g \in DOMAIN entry \cup {f} |->
                                  IF g = f THEN n ELSE entry[g]], k + 1)

\* for entry in table_res: ...; raised when float() raises on any of them.
RECURSIVE clean_entries(_, _)
clean_entries(entries, k) ==
    IF k > Len(entries) THEN [raised |-> FALSE, entries |-> entries]
    ELSE LET e == clean_entry(entries[k], 1)
         IN  IF e = ValueError THEN [raised |-> TRUE, entries |-> <<>>]
             ELSE clean_entries([entries EXCEPT ![k] = e], k + 1)

(***************************************************************************)
(* get_parser                                                              *)
(***************************************************************************)

InitExtract ==
    /\ IdleFetch
    /\ IdleBatch
    /\ IdleSave
    /\ IdleMult
    /\ IdleLlm
    /\ IdlePool
    /\ IdleFile
    /\ IdleRun
    /\ IdleLine
    /\ req_text \in Docs
    /\ gpc = "parser"
    /\ gp_records = <<>>
    /\ record_parser = 0
    /\ result = <<>>
    /\ pending = <<>>
    /\ table_res = <<>>
    /\ submitted = <<>>
    /\ first = None

\* self.parser(req_text), the first element of the list records.  parser has
\* no try: what it raises leaves get_parser at once.
RunParser ==
    /\ gpc = "parser"
    /\ LET r == parser(req_text.xml)
       IN  IF r.raised
           THEN gpc' = "raised" /\ UNCHANGED gp_records
           ELSE gpc' = "parser2" /\ gp_records' = <<r.records>>
    /\ UNCHANGED <<req_text, record_parser, result, pending, table_res, submitted, first>>
    /\ UNCHANGED outsideExtract

\* self.parser2(req_text)
RunParser2 ==
    /\ gpc = "parser2"
    /\ gp_records' = Append(gp_records, parser2(req_text.table_texts))
    /\ gpc' = "parser3"
    /\ UNCHANGED <<req_text, record_parser, result, pending, table_res, submitted, first>>
    /\ UNCHANGED outsideExtract

\* self.parser3(req_text)
RunParser3 ==
    /\ gpc = "parser3"
    /\ gp_records' = Append(gp_records, parser3(req_text.table_texts))
    /\ gpc' = "select"
    /\ UNCHANGED <<req_text, record_parser, result, pending, table_res, submitted, first>>
    /\ UNCHANGED outsideExtract

\* The loop of get_parser finding no non-empty element whatever records holds.
first_nonemptyNone(recs) == 0

\* The for loop of get_parser: the index i + 1 of the first non-empty element
\* of records, 0 when there is none.
first_nonempty(recs) ==
    LET found == {i \in 1..Len(recs) : Len(recs[i]) # 0}
    IN  IF found = {} THEN 0 ELSE CHOOSE i \in found : \A j \in found : i <= j

\* get_parser falling through to parser_llm whatever the loop found.
returns_resultNever(res) == FALSE

\* if result: return result
returns_result(res) == res # <<>>

\* The loop over records and what follows it, up to the first submission of
\* parser_llm.
Select ==
    /\ gpc = "select"
    /\ LET i == first_nonempty(gp_records)
           res == IF i = 0 THEN <<>> ELSE gp_records[i]
       IN  IF returns_result(res)
           THEN /\ record_parser' = i
                /\ result' = res
                /\ gpc' = "returned"
                /\ UNCHANGED <<pending, table_res, submitted>>
           ELSE /\ record_parser' = 4
                /\ pending' = fragments(req_text)
                /\ table_res' = <<>>
                /\ submitted' = <<>>
                /\ gpc' = "llm"
                /\ UNCHANGED result
    /\ UNCHANGED <<req_text, gp_records, first>>
    /\ UNCHANGED outsideExtract

\* One submission of parser_llm: try: table_res += asyncio.run(get_records(...))
\* except Exception: print(...)
LlmSubmit(resp) ==
    /\ gpc = "llm"
    /\ pending # <<>>
    /\ submitted' = Append(submitted, [fragment |-> Head(pending), response |-> resp])
    /\ pending' = Tail(pending)
    /\ table_res' = IF resp.kind = "return" THEN table_res \o resp.entries ELSE table_res
    /\ UNCHANGED <<req_text, gpc, gp_records, record_parser, result, first>>
    /\ UNCHANGED outsideExtract

\* The closing loop of parser_llm over table_res, outside every try, and the
\* return of get_parser.
LlmClean ==
    /\ gpc = "llm"
    /\ pending = <<>>
    /\ LET cleaned == clean_entries(table_res, 1)
       IN  IF cleaned.raised
           THEN gpc' = "raised" /\ UNCHANGED <<result, table_res>>
           ELSE /\ gpc' = "returned"
                /\ result' = cleaned.entries
                /\ table_res' = cleaned.entries
    /\ UNCHANGED <<req_text, gp_records, record_parser, pending, submitted, first>>
    /\ UNCHANGED outsideExtract

\* df.replace("", np.nan) and df.dropna(subset=["name_of_issuer"]) of save_data:
\* a row goes when its name_of_issuer cell is missing or the empty string.
dropna(entry) ==
    \/ "name_of_issuer" \notin DOMAIN entry
    \/ entry["name_of_issuer"] = Str(<<>>)

\* The index of df after dropna, over the rows of info_table_records from
\* position k (from 0) on.
RECURSIVE kept_index(_, _)
kept_index(info_table_records, k) ==
    IF k >= Len(info_table_records) THEN <<>>
    ELSE IF dropna(info_table_records[k + 1])
         THEN kept_index(info_table_records, k + 1)
         ELSE <<k>> \o kept_index(info_table_records, k + 1)

\* run counting the rows save_data keeps instead of the entries it was given.
RunSaveDataCountsKept ==
    /\ gpc = "returned"
    /\ info_table_len' = Len(kept_index(result, 0))
    /\ df_index' = kept_index(result, 0)
    /\ gpc' = "saved"
    /\ UNCHANGED <<req_text, gp_records, record_parser, result, pending, table_res,
                   submitted, first>>
    /\ UNCHANGED outsideSave

\* run, once get_info_table has returned what get_parser returned:
\* self.record["info_table_len"] = len(self.info_table_records), then save_data.
RunSaveData ==
    /\ gpc = "returned"
    /\ info_table_len' = Len(result)
    /\ df_index' = kept_index(result, 0)
    /\ gpc' = "saved"
    /\ UNCHANGED <<req_text, gp_records, record_parser, result, pending, table_res,
                   submitted, first>>
    /\ UNCHANGED outsideSave

\* The caller calls get_parser on the same object and the same text once more.
SecondCall ==
    /\ gpc \in {"returned", "raised"}
    /\ first = None
    /\ first' = [status |-> gpc, result |-> result, parser |-> record_parser,
                 submitted |-> submitted]
    /\ gpc' = "parser"
    /\ gp_records' = <<>>
    /\ result' = <<>>
    /\ pending' = <<>>
    /\ table_res' = <<>>
    /\ submitted' = <<>>
    /\ UNCHANGED <<req_text, record_parser>>
    /\ UNCHANGED outsideExtract

NextExtract ==
    \/ RunParser
    \/ RunParser2
    \/ RunParser3
    \/ Select
    \/ \E resp \in LlmResponses : LlmSubmit(resp)
    \/ LlmClean
    \/ RunSaveData
    \/ SecondCall

SpecExtract == InitExtract /\ [][NextExtract]_vars

(***************************************************************************)
(* Claims about get_parser and the strategies                              *)
(***************************************************************************)

Finished == gpc \in {"returned", "raised"}
\* The three deterministic strategies have run in the current call.
StrategiesRan == Len(gp_records) = 3
SomeStrategyYields == \E i \in 1..Len(gp_records) : gp_records[i] # <<>>
AllNumbers(entry) == \A f \in VotingFields : entry[f].t = "num"
VotingSum(entry) ==
    entry["voting_authority_sole"].v + entry["voting_authority_shared"].v
        + entry["voting_authority_none"].v
NoSeparator(v) == v.t = "num" \/ "," \notin Chars(v.v)

\* C1: for every document text get_parser returns, with the entries of the
\* lowest-numbered of Strategies 1, 2, 3 that yields an entry and that
\* strategy's number as provenance, or with provenance 4 when all three yield
\* nothing; so the provenance is in 1..4 and a result with provenance 1, 2 or
\* 3 is not empty.
C1_LowestStrategyWins ==
    Finished =>
        /\ gpc = "returned"
        /\ StrategiesRan
        /\ record_parser \in 1..4
        /\ record_parser \in 1..3 =>
              /\ result # <<>>
              /\ result = gp_records[record_parser]
              /\ \A j \in 1..(record_parser - 1) : gp_records[j] = <<>>
        /\ record_parser = 4 => ~SomeStrategyYields

\* C2: once Strategy 4 has started, no failure of the external capability
\* makes parser_llm raise: every fragment is submitted and get_parser returns.
C2_FallbackNeverRaises ==
    (StrategiesRan /\ record_parser = 4 /\ Finished) =>
        gpc = "returned" /\ pending = <<>>

\* C8: every entry Strategy 2 or Strategy 3 yields has a non-zero sum of the
\* three voting-authority counts, in the list of the strategy and in the
\* result when one of them wins; the block with a header and three data
\* lines, one of them all zero, gives two entries with provenance 2.
C8_VotingSumNonZero ==
    /\ \A i \in 2..Len(gp_records) : \A j \in 1..Len(gp_records[i]) :
          AllNumbers(gp_records[i][j]) /\ VotingSum(gp_records[i][j]) # 0
    /\ (gpc = "returned" /\ record_parser \in {2, 3}) =>
          \A j \in 1..Len(result) : AllNumbers(result[j]) /\ VotingSum(result[j]) # 0
    /\ (gpc = "returned" /\ req_text.xml = NO_XML /\ req_text.table_texts = <<T_THREE>>) =>
          record_parser = 2 /\ Len(result) = 2

\* Strategy 2 has won on the block of three data lines and returned the two
\* lines with a non-zero sum.
C8_Witness ==
    /\ gpc = "returned"
    /\ req_text.table_texts = <<T_THREE>>
    /\ record_parser = 2
    /\ Len(result) = 2
    /\ result[1]["voting_authority_sole"] = Num(1500)
    /\ result[2]["voting_authority_shared"] = Num(7)

\* C9: no entry get_parser returns, whichever strategy produced it, holds a
\* "," in one of the five numeric fields.
C9_NoThousandsSeparator ==
    gpc = "returned" =>
        \A j \in 1..Len(result) : \A f \in SeqToSet(NumericFields) :
            f \in DOMAIN result[j] /\ NoSeparator(result[j][f])

\* Strategy 1 has returned the entry whose value was written "1,000" and
\* whose share amount was written "2,500".
C9_Witness ==
    /\ gpc = "returned"
    /\ record_parser = 1
    /\ req_text.xml.children # <<>>
    /\ req_text.xml.children[1] = INFO_FULL
    /\ result[1]["value"] = Str(<<"1", "0", "0", "0">>)
    /\ result[1]["shares_or_percent_amount"] = Str(<<"2", "5", "0", "0">>)

C11_AllCanonicalFields ==
    gpc = "saved" => \A j \in DOMAIN result : DOMAIN result[j] = SeqToSet(col_names)

\* The entries of a record set whose issuer name is empty.
LackIssuer(entries) ==
    {j \in DOMAIN entries :
        "name_of_issuer" \in DOMAIN entries[j] => entries[j]["name_of_issuer"] = Str(<<>>)}

\* C18: an entry without an issuer name stays in the record set of the
\* strategy that produced it and is counted in info_table_len; only save_data
\* leaves its row out.
C18_EmptyIssuerCounted ==
    gpc = "saved" =>
        /\ record_parser \in 1..3 => result = gp_records[record_parser]
        /\ info_table_len = Len(result)
        /\ Len(df_index) = info_table_len - Cardinality(LackIssuer(result))
        /\ \A i \in DOMAIN df_index : df_index[i] + 1 \notin LackIssuer(result)
C18_Witness ==
    /\ gpc = "saved"
    /\ record_parser \in 1..3
    /\ LackIssuer(result) # {}
    /\ Len(df_index) < info_table_len

\* C13: on a located information-table fragment Strategy 1 yields exactly one
\* entry per child record element, in document order and with no row left
\* out, each entry holding the texts of its element's sub-elements.
C13_OneEntryPerRecord ==
    (req_text # None /\ req_text.xml.found /\ req_text.xml.wellformed /\ gpc # "parser") =>
        /\ Len(gp_records) >= 1
        /\ Len(gp_records[1]) = Len(req_text.xml.children)
        /\ \A j \in DOMAIN gp_records[1] :
              gp_records[1][j]["cusip"]
                  = Str(findtext(req_text.xml.children[j].elems, "cusip", <<>>))

\* C19: the strategies run one after the other in the order 1, 2, 3, 4: each
\* starts on the lists of all earlier ones, and the capability is asked only
\* once Strategies 1, 2 and 3 have all returned without an entry.
C19_StrategiesInOrder ==
    /\ gpc = "parser" => Len(gp_records) = 0
    /\ gpc = "parser2" => Len(gp_records) = 1
    /\ gpc = "parser3" => Len(gp_records) = 2
    /\ gpc \in {"select", "llm", "returned", "saved"} => StrategiesRan
    /\ (gpc = "llm" \/ submitted # <<>>) =>
          /\ StrategiesRan
          /\ ~SomeStrategyYields
          /\ record_parser = 4
C19_Witness ==
    /\ StrategiesRan
    /\ submitted # <<>>
    /\ pending # <<>>

\* C20: a deterministic strategy that does not recognise the document yields
\* no entry instead of failing: get_parser never ends before Strategies 1, 2
\* and 3 have all returned.
C20_StrategiesNeverFail ==
    gpc = "raised" => StrategiesRan

(***************************************************************************)
(* sec_get                                                                 *)
(***************************************************************************)

SEC_REQUEST_MAX_RETRIES == 5
SEC_REQUEST_SLEEP_INCREMENT == 10

\* The contact identities, by position in EMAILS.
EMAILS == <<"nizar.rizax", "project.mario.1", "data.fetcher.pro", "research.bot">>

Resp(s) == [kind |-> "resp", status |-> s]
Exc(e) == [kind |-> "exc", exc |-> e]

\* What one requests.get call can do: answer with a status, or raise a
\* requests.RequestException.
Statuses == {200, 204, 403, 404, 429, 500, 503}
NetworkFaults == {"ConnectionError", "Timeout"}
Outcomes == {Resp(s) : s \in Statuses} \cup {Exc(e) : e \in NetworkFaults}

\* _headers_for_attempt without the rotation: the first identity every time.
_headers_for_attemptFirst(attempt_index) == EMAILS[1]

\* h["user-agent"] names EMAILS[attempt_index % len(EMAILS)]
_headers_for_attempt(attempt_index) == EMAILS[(attempt_index % Len(EMAILS)) + 1]

InitFetch ==
    /\ IdleExtract
    /\ IdleBatch
    /\ IdleSave
    /\ IdleMult
    /\ IdleLlm
    /\ IdlePool
    /\ IdleFile
    /\ IdleRun
    /\ IdleLine
    /\ attempt = 0
    /\ slept = FALSE
    /\ last_response = None
    /\ last_exception = None
    /\ sleeps = <<>>
    /\ requests = <<>>
    /\ fstate = "running"
    /\ fresult = None

\* SecGetSleep with a constant back-off: the attempt index is not multiplied in.
SecGetSleepConstant ==
    /\ fstate = "running"
    /\ attempt < SEC_REQUEST_MAX_RETRIES
    /\ attempt > 0
    /\ ~slept
    /\ sleeps' = Append(sleeps, SEC_REQUEST_SLEEP_INCREMENT)
    /\ slept' = TRUE
    /\ UNCHANGED <<attempt, last_response, last_exception, requests, fstate, fresult>>
    /\ UNCHANGED outsideFetch

\* if attempt > 0: time.sleep(attempt * SEC_REQUEST_SLEEP_INCREMENT)
SecGetSleep ==
    /\ fstate = "running"
    /\ attempt < SEC_REQUEST_MAX_RETRIES
    /\ attempt > 0
    /\ ~slept
    /\ sleeps' = Append(sleeps, attempt * SEC_REQUEST_SLEEP_INCREMENT)
    /\ slept' = TRUE
    /\ UNCHANGED <<attempt, last_response, last_exception, requests, fstate, fresult>>
    /\ UNCHANGED outsideFetch

\* ReturnsAtOnce with a range test for success instead of the equality.
ReturnsAtOnceAny2xx(status) ==
    \/ (200 <= status /\ status < 300)
    \/ (400 <= status /\ status < 500 /\ status # 429)

\* ReturnsAtOnce without the exclusion of 429.
ReturnsAtOnceAny4xx(status) ==
    \/ status = 200
    \/ (400 <= status /\ status < 500)

\* The terminal statuses of the loop body: 200, and 4xx other than 429.
ReturnsAtOnce(status) ==
    \/ status = 200
    \/ (400 <= status /\ status < 500 /\ status # 429)

\* One requests.get of the loop body and what the body does with its outcome.
SecGetRequest(o) ==
    /\ fstate = "running"
    /\ attempt < SEC_REQUEST_MAX_RETRIES
    /\ (attempt > 0 => slept)
    /\ requests' = Append(requests, [identity |-> _headers_for_attempt(attempt),
                                     attempt |-> attempt, outcome |-> o])
    /\ IF o.kind = "resp"
       THEN /\ last_response' = o
            /\ UNCHANGED last_exception
            /\ IF ReturnsAtOnce(o.status)
               THEN /\ fstate' = "returned"
                    /\ fresult' = o
                    /\ UNCHANGED <<attempt, slept>>
               ELSE /\ attempt' = attempt + 1
                    /\ slept' = FALSE
                    /\ UNCHANGED <<fstate, fresult>>
       ELSE /\ last_exception' = o
            /\ attempt' = attempt + 1
            /\ slept' = FALSE
            /\ UNCHANGED <<last_response, fstate, fresult>>
    /\ UNCHANGED sleeps
    /\ UNCHANGED outsideFetch

\* SecGetExhausted with the two tests in the other order: a fault seen on any
\* attempt is raised even when a response was received.
SecGetExhaustedFaultFirst ==
    /\ fstate = "running"
    /\ attempt = SEC_REQUEST_MAX_RETRIES
    /\ IF last_exception # None
       THEN fstate' = "raised" /\ fresult' = last_exception
       ELSE fstate' = "returned" /\ fresult' = last_response
    /\ UNCHANGED <<attempt, slept, last_response, last_exception, sleeps, requests>>
    /\ UNCHANGED outsideFetch

\* After the loop: the last response if there is one, else the last fault.
SecGetExhausted ==
    /\ fstate = "running"
    /\ attempt = SEC_REQUEST_MAX_RETRIES
    /\ IF last_response # None
       THEN fstate' = "returned" /\ fresult' = last_response
       ELSE IF last_exception # None
            THEN fstate' = "raised" /\ fresult' = last_exception
            ELSE fstate' = "returned" /\ fresult' = last_response
    /\ UNCHANGED <<attempt, slept, last_response, last_exception, sleeps, requests>>
    /\ UNCHANGED outsideFetch

NextFetch ==
    \/ SecGetSleep
    \/ \E o \in Outcomes : SecGetRequest(o)
    \/ SecGetExhausted

SpecFetch == InitFetch /\ [][NextFetch]_vars

(***************************************************************************)
(* Claims about sec_get (checked under SpecFetch)                          *)
(***************************************************************************)

RequestIndexes == 1..Len(requests)
ResponseIndexes == {j \in RequestIndexes : requests[j].outcome.kind = "resp"}
FaultIndexes == {j \in RequestIndexes : requests[j].outcome.kind = "exc"}
MaxOf(S) == CHOOSE m \in S : \A x \in S : x <= m
Is2xx(status) == 200 <= status /\ status < 300
Is4xx(status) == 400 <= status /\ status < 500
\* The loop ran out of attempts: the loop variable passed the last attempt.
Exhausted == fstate # "running" /\ attempt = SEC_REQUEST_MAX_RETRIES

\* C4: when sec_get exhausts its retry budget it returns the last response
\* received on any attempt if there is one, and otherwise raises the last
\* network fault; it raises only when no attempt obtained a response.
C4_ExhaustionReturnsLastResponse ==
    /\ Exhausted =>
         IF ResponseIndexes # {}
         THEN /\ fstate = "returned"
              /\ fresult = requests[MaxOf(ResponseIndexes)].outcome
         ELSE /\ fstate = "raised"
              /\ fresult = requests[MaxOf(FaultIndexes)].outcome
    /\ fstate = "raised" => ResponseIndexes = {}

\* C4 witness: exhaustion where a response was received before a final fault.
C4_Witness ==
    /\ Exhausted
    /\ fstate = "returned"
    /\ requests[Len(requests)].outcome.kind = "exc"
    /\ fresult = Resp(503)

\* C5: at most SEC_REQUEST_MAX_RETRIES attempts; attempt 0 is issued with no
\* sleep, every attempt i > 0 is preceded by a sleep of exactly i * 10
\* seconds, so a call that ended at attempt k slept 10, 20, ..., 10k in order.
C5_AttemptsAndBackoff ==
    /\ Len(requests) <= SEC_REQUEST_MAX_RETRIES
    /\ \A j \in RequestIndexes : requests[j].attempt = j - 1
    /\ \A i \in 1..Len(sleeps) : sleeps[i] = i * 10
    /\ Len(sleeps) <= Len(requests)
    /\ Len(requests) <= Len(sleeps) + 1
    /\ fstate # "running" => Len(sleeps) = Len(requests) - 1

\* C5 witness: 429, 429, 200 returns the 200 after sleeps of 10 s then 20 s.
C5_Witness ==
    /\ fstate = "returned"
    /\ fresult = Resp(200)
    /\ Len(requests) = 3
    /\ requests[1].outcome = Resp(429)
    /\ requests[2].outcome = Resp(429)
    /\ sleeps = <<10, 20>>

\* C6 as claimed: every response with a status in 200..299 is returned on
\* the attempt that received it, and no further attempt is made.
C6_Original ==
    \A j \in ResponseIndexes :
        Is2xx(requests[j].outcome.status) =>
            /\ j = Len(requests)
            /\ fstate = "returned"
            /\ fresult = requests[j].outcome

\* C6 as amended: status 200, and of the 2xx statuses only 200, is returned on
\* the attempt that received it with no further attempt; any other 2xx status
\* is retried and is returned only as the last response at exhaustion.
C6_Only200IsSuccess ==
    /\ \A j \in ResponseIndexes :
          requests[j].outcome.status = 200 =>
              /\ j = Len(requests)
              /\ fstate = "returned"
              /\ fresult = requests[j].outcome
    /\ \A j \in ResponseIndexes :
          (Is2xx(requests[j].outcome.status) /\ requests[j].outcome.status # 200
              /\ j < SEC_REQUEST_MAX_RETRIES /\ j = Len(requests)) =>
              /\ fstate = "running"
              /\ attempt = j

\* C6 witness: a 200 received on a retry, after a 204 that was not returned.
C6_Witness ==
    /\ fstate = "returned"
    /\ fresult = Resp(200)
    /\ Len(requests) = 2
    /\ requests[1].outcome = Resp(204)

\* C7: a 4xx response other than 429 is returned on the attempt that
\* received it, with no further attempt and no further sleep; 429 is retried.
C7_Permanent4xx ==
    /\ \A j \in ResponseIndexes :
          (Is4xx(requests[j].outcome.status) /\ requests[j].outcome.status # 429) =>
              /\ j = Len(requests)
              /\ fstate = "returned"
              /\ fresult = requests[j].outcome
              /\ Len(sleeps) = j - 1
    /\ \A j \in ResponseIndexes :
          (requests[j].outcome.status = 429 /\ j < SEC_REQUEST_MAX_RETRIES
              /\ j = Len(requests)) =>
              /\ fstate = "running"
              /\ attempt = j

\* C7 witness: a 429 was retried and the 404 that followed was returned.
C7_Witness ==
    /\ fstate = "returned"
    /\ fresult = Resp(404)
    /\ Len(requests) = 2
    /\ requests[1].outcome = Resp(429)
    /\ sleeps = <<10>>

\* The attempts of the call made so far present the identities of the pool in
\* its order, attempt i the one at position i mod the pool size.
RoundRobin ==
    \A i \in DOMAIN requests :
        /\ requests[i].attempt = i - 1
        /\ \E p \in DOMAIN EMAILS :
              /\ (p - 1) % Len(EMAILS) = (i - 1) % Len(EMAILS)
              /\ requests[i].identity = EMAILS[p]

\* C15 as stated: attempt i presents the identity at position i mod the pool
\* size, and no two attempts of one call present the same identity.
C15_Original ==
    /\ RoundRobin
    /\ \A i, j \in DOMAIN requests :
          i # j => requests[i].identity # requests[j].identity

\* C15, amended: attempt i presents the identity at position i mod the pool
\* size; two attempts of one call present the same identity exactly when
\* their indexes differ by a multiple of the pool size, so consecutive
\* attempts always differ and the fifth attempt repeats the first identity.
C15_IdentityRoundRobin ==
    /\ RoundRobin
    /\ \A i, j \in DOMAIN requests :
          (requests[i].identity = requests[j].identity)
              <=> ((i - j) % Len(EMAILS) = 0)
C15_Witness ==
    /\ Len(requests) = SEC_REQUEST_MAX_RETRIES
    /\ requests[SEC_REQUEST_MAX_RETRIES].identity = requests[1].identity
    /\ requests[2].identity # requests[1].identity

(***************************************************************************)
(* sec_get in the worker pool of run: every worker is in a call of its own *)
(***************************************************************************)

\* The largest args.file_workers.
MaxFileWorkers == 2

Workers == DOMAIN pool
NewCall(is_first) ==
    [attempt |-> 0, at |-> "send", sleeps |-> <<>>, identities |-> <<>>,
     first_call |-> is_first]

InitPool ==
    /\ IdleFetch
    /\ IdleExtract
    /\ IdleBatch
    /\ IdleSave
    /\ IdleMult
    /\ IdleLlm
    /\ IdleFile
    /\ IdleRun
    /\ IdleLine
    /\ file_workers \in 1..MaxFileWorkers
    /\ pool = [w \in 1..file_workers |-> NewCall(TRUE)]

\* The requests all calls have sent so far.
RequestsSent(p) ==
    LET RECURSIVE Sum(_)
        Sum(W) == IF W = {} THEN 0
                  ELSE LET w == CHOOSE x \in W : TRUE
                       IN  Len(p[w].identities) + Sum(W \ {w})
    IN  Sum(DOMAIN p)

\* The identity taken from a pool index that all calls advance.
call_headersShared(p, w) == _headers_for_attempt(RequestsSent(p))

\* h = _headers_for_attempt(attempt), attempt the loop variable of the call
call_headers(p, w) == _headers_for_attempt(p[w].attempt)

\* time.sleep(attempt * SEC_REQUEST_SLEEP_INCREMENT) of the call of worker w
PoolSleep(w) ==
    /\ pool[w].at = "sleep"
    /\ pool' = [pool EXCEPT ![w].sleeps = Append(@, pool[w].attempt * SEC_REQUEST_SLEEP_INCREMENT),
                            ![w].at = "send"]
    /\ UNCHANGED file_workers
    /\ UNCHANGED outsidePool

\* requests.get(url, headers=h, timeout=60) is sent
PoolSend(w) ==
    /\ pool[w].at = "send"
    /\ pool' = [pool EXCEPT ![w].identities = Append(@, call_headers(pool, w)),
                            ![w].at = "flight"]
    /\ UNCHANGED file_workers
    /\ UNCHANGED outsidePool

\* requests.get returns or raises, and the loop goes on or the call ends
PoolReceive(w, o) ==
    /\ pool[w].at = "flight"
    /\ IF o.kind = "resp" /\ ReturnsAtOnce(o.status)
       THEN pool' = [pool EXCEPT ![w].at = "returned"]
       ELSE pool' = [pool EXCEPT
                ![w].attempt = @ + 1,
                ![w].at = IF pool[w].attempt + 1 < SEC_REQUEST_MAX_RETRIES
                          THEN "sleep" ELSE "returned"]
    /\ UNCHANGED file_workers
    /\ UNCHANGED outsidePool

\* The worker calls sec_get once more.
PoolNextCall(w) ==
    /\ pool[w].at = "returned"
    /\ pool[w].first_call
    /\ pool' = [pool EXCEPT ![w] = NewCall(FALSE)]
    /\ UNCHANGED file_workers
    /\ UNCHANGED outsidePool

NextPool ==
    \/ \E w \in Workers : PoolSleep(w)
    \/ \E w \in Workers : PoolSend(w)
    \/ \E w \in Workers, o \in {Resp(200), Resp(503), Exc("Timeout")} : PoolReceive(w, o)
    \/ \E w \in Workers : PoolNextCall(w)

SpecPool == InitPool /\ [][NextPool]_vars

\* C16: the calls of sec_get share nothing: whatever the other workers do and
\* whatever was called before, a call presents the identities of the pool
\* from the first one on, sleeps 10, 20, ... seconds before its retries and
\* makes at most five attempts; so all workers can have a request in flight
\* at once, each on the same retry.
C16_CallsIndependent ==
    \A w \in Workers :
        /\ Len(pool[w].identities) <= SEC_REQUEST_MAX_RETRIES
        /\ \A i \in DOMAIN pool[w].identities :
              pool[w].identities[i] = EMAILS[((i - 1) % Len(EMAILS)) + 1]
        /\ \A i \in DOMAIN pool[w].sleeps :
              pool[w].sleeps[i] = i * SEC_REQUEST_SLEEP_INCREMENT
        /\ pool[w].at = "flight" =>
              /\ Len(pool[w].identities) = pool[w].attempt + 1
              /\ Len(pool[w].sleeps) = pool[w].attempt
\* Every worker has its first retry in flight at once, after the same sleep
\* and under the same identity, one of them in its second call.
C16_Witness ==
    /\ file_workers >= 2
    /\ \A w \in Workers :
          /\ pool[w].at = "flight"
          /\ pool[w].attempt = 1
          /\ pool[w].sleeps = <<SEC_REQUEST_SLEEP_INCREMENT>>
          /\ pool[w].identities = <<EMAILS[1], EMAILS[2]>>
    /\ ~pool[1].first_call
    /\ pool[2].first_call

(***************************************************************************)
(* llm_parser.get_records                                                  *)
(* A response text is given by what json.loads makes of it.                *)
(***************************************************************************)

Raised(e) == [kind |-> "raise", exc |-> e]

\* A dict whose value is a JSON number, which Sec13FEntry (all str) refuses.
LLM_NUMBER ==
    [name_of_issuer |-> Str(<<"B", "E", "T", "A">>), value |-> Num(7)]

\* Sec13FEntry(**d).model_dump(): the fields d lacks take their defaults.
model_dump(d) ==
    [f \in SeqToSet(col_names) |->
        IF f \in DOMAIN d THEN d[f]
        ELSE IF f \in SeqToSet(NumericFields) THEN Str(<<"0">>) ELSE Str(<<>>)]

\* The texts of a Gemini response: empty, not JSON, a JSON scalar, a JSON
\* array, or a JSON object with or without the key "result".
TEXT_EMPTY == [json |-> "empty"]
TEXT_NOT_JSON == [json |-> "invalid"]
TEXT_SCALAR == [json |-> "scalar"]
JArray(items) == [json |-> "array", items |-> items]
JObject(res) == [json |-> "object", result |-> res]
NoResult == [k |-> "absent"]
ResultList(items) == [k |-> "array", items |-> items]
ResultNumber == [k |-> "number"]
GeminiTexts ==
    {TEXT_EMPTY, TEXT_NOT_JSON, TEXT_SCALAR, JArray(<<LLM_PARTIAL>>), JObject(NoResult),
     JObject(ResultList(<<LLM_PARTIAL>>)), JObject(ResultList(<<LLM_NUMBER>>)),
     JObject(ResultNumber)}

\* TableRes.model_validate_json(text) does not raise: an object whose
\* "result", if it has one, is an array of objects with str values only.
validates(text) ==
    /\ text.json = "object"
    /\ text.result.k \in {"absent", "array"}
    /\ text.result.k = "array" =>
          \A i \in DOMAIN text.result.items :
              \A f \in DOMAIN text.result.items[i] : text.result.items[i][f].t = "str"

\* _normalize_entries(raw) for raw a list of dicts, which it leaves as it is.
_normalize_entries(raw) == raw

\* _get_records_gemini from text = (response.text or "").strip() on.
\* _normalize_entries(data["result"]) iterates over what is not a list.
gemini_records(text) ==
    IF text.json = "empty" THEN Return(<<>>)
    ELSE IF validates(text)
    THEN IF text.result.k = "absent" THEN Return(<<>>)
         ELSE Return([i \in DOMAIN text.result.items |-> model_dump(text.result.items[i])])
    ELSE IF text.json = "object" /\ text.result.k = "array"
    THEN Return(_normalize_entries(text.result.items))
    ELSE IF text.json = "object" /\ text.result.k = "number" THEN Raised("TypeError")
    ELSE IF text.json = "array" THEN Return(_normalize_entries(text.items))
    ELSE Return(<<>>)

\* The fragments get_records is called on.
Fragments == {"table with issuer", "table with cusip", "document"}

InitLlm ==
    /\ IdleFetch
    /\ IdleExtract
    /\ IdleBatch
    /\ IdleSave
    /\ IdleMult
    /\ IdlePool
    /\ IdleFile
    /\ IdleRun
    /\ IdleLine
    /\ llm_env \in [LLM_PARSER_MODEL : {"openai", "gemini"}, GEMINI_API_KEY : BOOLEAN,
                     installed : BOOLEAN]
    /\ llm_table_str \in Fragments
    /\ glc = "called"
    /\ n_run = 0
    /\ crunner_output = Str(<<>>)
    /\ get_records_res = None

\* get_records up to the first await of its provider; the imports of either
\* path raise ImportError when the package is not there.
GetRecords ==
    /\ glc = "called"
    /\ IF llm_env.LLM_PARSER_MODEL = "gemini" /\ ~llm_env.GEMINI_API_KEY
       THEN glc' = "raised" /\ get_records_res' = Raised("ValueError")
       ELSE IF ~llm_env.installed
       THEN glc' = "raised" /\ get_records_res' = Raised("ImportError")
       ELSE /\ glc' = IF llm_env.LLM_PARSER_MODEL = "gemini" THEN "generate" ELSE "run"
            /\ UNCHANGED get_records_res
    /\ UNCHANGED <<llm_env, llm_table_str, n_run, crunner_output>>
    /\ UNCHANGED outsideLlm

\* response = model.generate_content(prompt), outside every try, and the rest
\* of _get_records_gemini.
GenerateContent(o) ==
    /\ glc = "generate"
    /\ LET res == IF o = Raise THEN Raised("provider error") ELSE gemini_records(o.text)
       IN  /\ get_records_res' = res
           /\ glc' = IF res.kind = "raise" THEN "raised" ELSE "returned"
    /\ UNCHANGED <<llm_env, llm_table_str, n_run, crunner_output>>
    /\ UNCHANGED outsideLlm

\* run_async awaits self._run() in its try, in its first except and in its
\* second except, which has no try of its own.
RUN_ASYNC_RUNS == 3

\* What one _run makes of the run: Runner.run or .json() raises, or
\* self.output is the dict of a TableRes.
RunOutcomes ==
    {Raise} \cup {Return(e) : e \in {<<>>, <<model_dump(LLM_PARTIAL)>>, <<LLM_FULL>>}}

\* run_async without its two except branches: what the first self._run()
\* raises leaves get_records.
RunAsyncNoRetry(o) ==
    /\ glc = "run"
    /\ n_run < RUN_ASYNC_RUNS
    /\ n_run' = n_run + 1
    /\ IF o = Raise
       THEN /\ UNCHANGED crunner_output
            /\ glc' = "raised" /\ get_records_res' = Raised("provider error")
       ELSE /\ crunner_output' = [result |-> o.entries]
            /\ get_records_res' = Return(_normalize_entries(o.entries))
            /\ glc' = "returned"
    /\ UNCHANGED <<llm_env, llm_table_str>>
    /\ UNCHANGED outsideLlm

\* One self._run() of run_async and, when it does not raise, the rest of
\* get_records.
RunAsync(o) ==
    /\ glc = "run"
    /\ n_run < RUN_ASYNC_RUNS
    /\ n_run' = n_run + 1
    /\ IF o = Raise
       THEN /\ UNCHANGED crunner_output
            /\ IF n_run + 1 = RUN_ASYNC_RUNS
               THEN glc' = "raised" /\ get_records_res' = Raised("provider error")
               ELSE UNCHANGED <<glc, get_records_res>>
       ELSE /\ crunner_output' = [result |-> o.entries]
            /\ get_records_res' = Return(_normalize_entries(o.entries))
            /\ glc' = "returned"
    /\ UNCHANGED <<llm_env, llm_table_str>>
    /\ UNCHANGED outsideLlm

NextLlm ==
    \/ GetRecords
    \/ \E o \in {Raise} \cup {[kind |-> "text", text |-> t] : t \in GeminiTexts} :
          GenerateContent(o)
    \/ \E o \in RunOutcomes : RunAsync(o)

SpecLlm == InitLlm /\ [][NextLlm]_vars

\* C14: get_records never raises to its caller, whatever fails inside it: the
\* provider, the credentials, or the form of the response.
C14_NeverRaises ==
    glc # "raised"

\* No self._run() of the CRunner has set self.output.
NoRunSucceeded == crunner_output = Str(<<>>)

\* What C29 says of every state.
C29_EveryState ==
    /\ n_run <= 3
    /\ n_run > 0 => llm_env.LLM_PARSER_MODEL = "openai"
    /\ glc = "run" => n_run < 3 /\ NoRunSucceeded
    /\ (glc = "returned" /\ n_run > 0) => ~NoRunSucceeded
    /\ (glc = "raised" /\ llm_env.LLM_PARSER_MODEL = "openai" /\ llm_env.installed) =>
          n_run = 3 /\ NoRunSucceeded
\* What C29 says of every step.
C29_EveryStep ==
    n_run' # n_run => glc = "run" /\ NoRunSucceeded /\ n_run' = n_run + 1

\* C29: one run_async awaits self._run() at most three times; a run is started
\* only while every run before it has raised, none after a run that set
\* self.output; and the exception leaves run_async, and with it get_records,
\* only when the third run has raised.
C29_AtMostThreeRuns == []C29_EveryState /\ [][C29_EveryStep]_vars

\* The first two runs raised and the third returned the entries.
C29_Witness ==
    /\ glc = "returned"
    /\ n_run = 3
    /\ crunner_output = [result |-> <<LLM_FULL>>]
    /\ get_records_res = Return(_normalize_entries(<<LLM_FULL>>))

(***************************************************************************)
(* check_value_multiplies                                                  *)
(***************************************************************************)

\* The longest body, in pieces.
MaxPieces == 2

\* What the bodies are made of: scale markers, digits, and what looks like
\* the beginning of a marker.
Pieces == {<<"x", "$">>, <<"x", "$", "1", "0">>, <<"1", "2">>, <<"5">>,
           <<"0">>, <<"[", "T", "h", "o", "u", "s", "a", "n", "d", "s", "]">>,
           <<"[", "T", "H", "O", "U", "S", "A", "N", "D", "S", "]">>, <<"x">>, <<" ", "$">>}
RECURSIVE Concat(_)
Concat(ss) == IF ss = <<>> THEN <<>> ELSE Head(ss) \o Concat(Tail(ss))
Bodies == {Concat(ss) : ss \in SeqsUpTo(Pieces, MaxPieces)}
TextResp(s, text) == [kind |-> "resp", status |-> s, text |-> text]

InitMult ==
    /\ IdleFetch
    /\ IdleExtract
    /\ IdleBatch
    /\ IdleSave
    /\ IdleLlm
    /\ IdlePool
    /\ IdleFile
    /\ IdleRun
    /\ IdleLine
    /\ response \in {TextResp(s, text) : s \in {200, 404}, text \in Bodies}
    /\ mvc = "called"
    /\ value_multiplies = 0

\* The end (exclusive, from 0) of the digits that start at position k of s:
\* the greedy \d+ of the pattern.
RECURSIVE digits_end(_, _)
digits_end(s, k) ==
    IF k < Len(s) /\ IsDigit(s[k + 1]) THEN digits_end(s, k + 1) ELSE k

\* re.search(r"x\$(\d+)", s) trying the positions from k on: group(1) of the
\* leftmost match, if a position matches.
RECURSIVE search_scale(_, _)
search_scale(s, k) ==
    IF k + 3 > Len(s) THEN [found |-> FALSE, group |-> <<>>]
    ELSE IF s[k + 1] = "x" /\ s[k + 2] = "$" /\ IsDigit(s[k + 3])
         THEN [found |-> TRUE, group |-> Slice(s, k + 2, digits_end(s, k + 2))]
         ELSE search_scale(s, k + 1)

\* int(s) of a str of decimal digits
int(s) == DigitsValue(s)

THOUSANDS == <<"[", "t", "h", "o", "u", "s", "a", "n", "d", "s", "]">>

\* check_value_multiplies looking for "[thousands]" before the x$ marker.
check_value_multipliesThousandsFirst(resp) ==
    IF resp.status = 200
    THEN LET match == search_scale(resp.text, 0)
         IN  IF Contains(Lower(resp.text), THOUSANDS) THEN 1000
             ELSE IF match.found THEN int(match.group)
             ELSE 1
    ELSE 1

\* check_value_multiplies after response = sec_get(url)
check_value_multiplies(resp) ==
    IF resp.status = 200
    THEN LET match == search_scale(resp.text, 0)
         IN  IF match.found THEN int(match.group)
             ELSE IF Contains(Lower(resp.text), THOUSANDS) THEN 1000
             ELSE 1
    ELSE 1

ReturnValueMultiplies ==
    /\ mvc = "called"
    /\ value_multiplies' = check_value_multiplies(response)
    /\ mvc' = "returned"
    /\ UNCHANGED response
    /\ UNCHANGED outsideMult

NextMult == ReturnValueMultiplies

SpecMult == InitMult /\ [][NextMult]_vars

\* The positions (from 1) of body where a marker x$<digits> begins.
Markers(body) ==
    {p \in 1..(Len(body) - 2) :
        body[p] = "x" /\ body[p + 1] = "$" /\ IsDigit(body[p + 2])}
\* The digits of the marker at p: as many as follow the "$".
MarkerDigits(body, p) ==
    LET ends == {e \in (p + 2)..Len(body) : \A i \in (p + 2)..e : IsDigit(body[i])}
    IN  SubSeq(body, p + 2, CHOOSE e \in ends : \A x \in ends : x <= e)
\* The number a str of digits spells.
RECURSIVE Spelled(_)
Spelled(ds) ==
    IF ds = <<>> THEN 0 ELSE DigitValue(Head(ds)) * 10 ^ (Len(ds) - 1) + Spelled(Tail(ds))
HasThousands(body) ==
    \E i \in 1..Len(body) : \E j \in i..Len(body) : Lower(SubSeq(body, i, j)) = THOUSANDS

\* C12: on a fetched body check_value_multiplies returns the number spelled
\* by the digits of the first x$<digits> marker if there is one, whether or
\* not the body also holds [thousands]; with no marker, 1000 if the body
\* holds [thousands] in any letter case, and 1 otherwise.
C12_ScaleMarker ==
    (mvc = "returned" /\ response.status = 200) =>
        LET body == response.text
        IN  IF Markers(body) # {}
            THEN LET p == CHOOSE m \in Markers(body) : \A x \in Markers(body) : m <= x
                 IN  value_multiplies = Spelled(MarkerDigits(body, p))
            ELSE IF HasThousands(body) THEN value_multiplies = 1000
            ELSE value_multiplies = 1
\* A body with both markers: the x$ marker wins.
C12_Witness ==
    /\ mvc = "returned"
    /\ response.status = 200
    /\ Markers(response.text) # {}
    /\ HasThousands(response.text)
    /\ value_multiplies = 10

(***************************************************************************)
(* process_one_file: the records of one file, run by the worker pool       *)
(***************************************************************************)

\* The most rows the file holds.
MaxFilings == 2
\* The largest record_workers.
MaxWorkers == 2

\* The records of the run, by their position in records.
Filings == DOMAIN rpc
\* d[k] = v
Put(d, k, v) == [x \in DOMAIN d \cup {k} |-> IF x = k THEN v ELSE d[x]]

\* The rows of the file, whether processed before or not.
df_filterAll(df, existing) == {df[i] : i \in DOMAIN df}

\* df_filter = df[~df["accessionNumber"].isin(existing_acsns)], each row given
\* by its accession number.
df_filter(df, existing) == {df[i] : i \in {j \in DOMAIN df : df[j] \notin existing}}

InitBatch ==
    /\ IdleFetch
    /\ IdleExtract
    /\ IdleSave
    /\ IdleMult
    /\ IdleLlm
    /\ IdlePool
    /\ IdleRun
    /\ IdleLine
    /\ record_workers \in 1..MaxWorkers
    /\ csv_acsns = [i \in 1..MaxFilings |-> i]
    /\ existing_acsns \in SUBSET (1..MaxFilings)
    /\ rpc = [f \in df_filter(csv_acsns, existing_acsns) |-> "queued"]
    /\ record = [f \in df_filter(csv_acsns, existing_acsns) |-> [accessionNumber |-> f]]
    /\ futures = [f \in df_filter(csv_acsns, existing_acsns) |-> None]
    /\ collected = {}
    /\ log_entries = <<>>
    /\ errors = <<>>
    /\ n_ok = 0
    /\ bstate = "collecting"
    /\ output = None

\* What sec_get hands to its caller: a response of any status, or the last
\* network fault raised.
SecGetResults == {Resp(s) : s \in Statuses} \cup {Exc(e) : e \in NetworkFaults}

log_entry(f, status, error_message) ==
    [accession_number |-> f, status |-> status, error_message |-> error_message]

\* run_one_record with its try removed: the exception is left in the future.
run_one_record_raises(f, e) == [kind |-> "exception", exc |-> e]

\* except Exception as e: ...; return str(e), log_entry
run_one_record_except(f, e) ==
    [kind |-> "result", err |-> e, log_entry |-> log_entry(f, "error", e)]

\* processor.run() has returned: log_entry["status"] = "success"; return None, log_entry
run_one_record_success(f) ==
    [kind |-> "result", err |-> "", log_entry |-> log_entry(f, "success", "")]

\* The except of run: self.record["process"] = str(traceback.format_exc())
run_except(rec) == Put(rec, "process", "traceback")

Running == {f \in Filings : rpc[f] \notin {"queued", "done"}}

\* A record is taken up: in the loop of the sequential branch once every
\* record before it is collected, in the pool by a free worker, in the order
\* of submission.
Start(f) ==
    /\ bstate = "collecting"
    /\ rpc[f] = "queued"
    /\ \A g \in Filings : g < f => rpc[g] # "queued"
    /\ IF record_workers <= 1
       THEN \A g \in Filings : g < f => g \in collected
       ELSE Cardinality(Running) < record_workers
    /\ rpc' = [rpc EXCEPT ![f] = "init"]
    /\ UNCHANGED <<record_workers, record, futures, collected, log_entries, errors,
                   n_ok, bstate, output>>
    /\ UNCHANGED outsideBatch

\* processor = ProcessACSN(record, dbx_manager), which raises on a row without
\* accession number or report date; then the first statement of run.
Construct(f, ok) ==
    /\ rpc[f] = "init"
    /\ IF ok
       THEN /\ rpc' = [rpc EXCEPT ![f] = "index"]
            /\ record' = [record EXCEPT ![f] = Put(@, "bq_status", "process")]
            /\ UNCHANGED futures
       ELSE /\ rpc' = [rpc EXCEPT ![f] = "done"]
            /\ futures' = [futures EXCEPT ![f] = run_one_record_except(f, "AttributeError")]
            /\ UNCHANGED record
    /\ UNCHANGED <<record_workers, collected, log_entries, errors, n_ok, bstate, output>>
    /\ UNCHANGED outsideBatch

\* A step of run raises and the exception leaves run: run_one_record logs it
\* as an error.
RunRaisesEscapes(f) ==
    /\ rpc' = [rpc EXCEPT ![f] = "done"]
    /\ record' = [record EXCEPT ![f] = run_except(@)]
    /\ futures' = [futures EXCEPT ![f] = run_one_record_except(f, "traceback")]

\* A step of run raises: the except of run records it, run returns, and
\* run_one_record returns its success entry.
RunRaises(f) ==
    /\ rpc' = [rpc EXCEPT ![f] = "done"]
    /\ record' = [record EXCEPT ![f] = run_except(@)]
    /\ futures' = [futures EXCEPT ![f] = run_one_record_success(f)]

\* A step of run returns and run goes on at pc.
RunGoesOn(f, pc) ==
    /\ rpc' = [rpc EXCEPT ![f] = pc]
    /\ UNCHANGED <<record, futures>>

\* index_res = self.get_html_info_table()
GetHtmlInfoTable(f, o) ==
    /\ rpc[f] = "index"
    /\ IF o.kind = "exc" THEN RunRaises(f) ELSE RunGoesOn(f, "multiplies")
    /\ UNCHANGED <<record_workers, collected, log_entries, errors, n_ok, bstate, output>>
    /\ UNCHANGED outsideBatch

\* self.record["value_multiplies"] = self.check_value_multiplies(...)
CheckValueMultiplies(f, o) ==
    /\ rpc[f] = "multiplies"
    /\ IF o.kind = "exc" THEN RunRaises(f) ELSE RunGoesOn(f, "info_table")
    /\ UNCHANGED <<record_workers, collected, log_entries, errors, n_ok, bstate, output>>
    /\ UNCHANGED outsideBatch

\* get_info_table up to its call of get_parser: a status other than 200 gives
\* the empty list, and run sets info_table_len.
GetInfoTable(f, o) ==
    /\ rpc[f] = "info_table"
    /\ IF o.kind = "exc" THEN RunRaises(f)
       ELSE IF o.status = 200 THEN RunGoesOn(f, "parse")
       ELSE /\ rpc' = [rpc EXCEPT ![f] = "save"]
            /\ record' = [record EXCEPT ![f] = Put(@, "info_table_len", 0)]
            /\ UNCHANGED futures
    /\ UNCHANGED <<record_workers, collected, log_entries, errors, n_ok, bstate, output>>
    /\ UNCHANGED outsideBatch

\* What a call of get_parser ends with: it raises, or returns so many entries.
GetParserResults == {[raised |-> TRUE, len |-> 0], [raised |-> FALSE, len |-> 0],
                     [raised |-> FALSE, len |-> 1]}

\* return self.get_parser(text_body); self.record["info_table_len"] = len(...)
GetParser(f, r) ==
    /\ rpc[f] = "parse"
    /\ IF r.raised THEN RunRaises(f)
       ELSE /\ rpc' = [rpc EXCEPT ![f] = "save"]
            /\ record' = [record EXCEPT ![f] = Put(@, "info_table_len", r.len)]
            /\ UNCHANGED futures
    /\ UNCHANGED <<record_workers, collected, log_entries, errors, n_ok, bstate, output>>
    /\ UNCHANGED outsideBatch

\* self.save_data(); self.record["process"] = ""; run returns and run_one_record
\* returns its success entry.  save_data raises from the statements before
\* its own try.
SaveData(f, ok) ==
    /\ rpc[f] = "save"
    /\ IF ok
       THEN /\ rpc' = [rpc EXCEPT ![f] = "done"]
            /\ record' = [record EXCEPT ![f] = Put(@, "process", "")]
            /\ futures' = [futures EXCEPT ![f] = run_one_record_success(f)]
       ELSE RunRaises(f)
    /\ UNCHANGED <<record_workers, collected, log_entries, errors, n_ok, bstate, output>>
    /\ UNCHANGED outsideBatch

\* err, log_entry = fut.result() (or the return of the direct call) and the
\* bookkeeping that follows.  fut.result() raises what the future holds.
Collect(f) ==
    /\ bstate = "collecting"
    /\ futures[f] # None
    /\ f \notin collected
    /\ record_workers <= 1 => \A g \in Filings : g < f => g \in collected
    /\ collected' = collected \cup {f}
    /\ IF futures[f].kind = "exception"
       THEN /\ bstate' = "raised"
            /\ UNCHANGED <<log_entries, errors, n_ok>>
       ELSE /\ log_entries' = Append(log_entries, futures[f].log_entry)
            /\ IF futures[f].err # ""
               THEN errors' = Append(errors, futures[f].err) /\ UNCHANGED n_ok
               ELSE n_ok' = n_ok + 1 /\ UNCHANGED errors
            /\ UNCHANGED bstate
    /\ UNCHANGED <<record_workers, rpc, record, futures, output>>
    /\ UNCHANGED outsideBatch

\* return {"file": ..., "ok": ..., "n_processed": ..., ...}
ReturnBatch ==
    /\ bstate = "collecting"
    /\ Filings # {}
    /\ collected = Filings
    /\ bstate' = "returned"
    /\ output' = [ok |-> Len(errors) = 0, n_processed |-> n_ok,
                  n_total |-> Cardinality(Filings),
                  errors |-> SubSeq(errors, 1, IF Len(errors) < 5 THEN Len(errors) ELSE 5),
                  log_entries |-> log_entries]
    /\ UNCHANGED <<record_workers, rpc, record, futures, collected, log_entries,
                   errors, n_ok>>
    /\ UNCHANGED outsideBatch

\* if df_filter.empty: return {"file": ..., "ok": True, "skipped": True, "n_processed": 0}
ReturnSkipped ==
    /\ bstate = "collecting"
    /\ Filings = {}
    /\ bstate' = "skipped"
    /\ output' = [ok |-> TRUE, skipped |-> TRUE, n_processed |-> 0]
    /\ UNCHANGED <<record_workers, rpc, record, futures, collected, log_entries,
                   errors, n_ok>>
    /\ UNCHANGED outsideBatch

NextBatch ==
    \/ \E f \in Filings : Start(f)
    \/ \E f \in Filings, ok \in BOOLEAN : Construct(f, ok)
    \/ \E f \in Filings, o \in SecGetResults : GetHtmlInfoTable(f, o)
    \/ \E f \in Filings, o \in SecGetResults : CheckValueMultiplies(f, o)
    \/ \E f \in Filings, o \in SecGetResults : GetInfoTable(f, o)
    \/ \E f \in Filings, r \in GetParserResults : GetParser(f, r)
    \/ \E f \in Filings, ok \in BOOLEAN : SaveData(f, ok)
    \/ \E f \in Filings : Collect(f)
    \/ ReturnBatch
    \/ ReturnSkipped

SpecBatch == InitBatch /\ [][NextBatch]_vars

(***************************************************************************)
(* Claims about process_one_file                                           *)
(***************************************************************************)

EntriesOf(f, entries) == {i \in 1..Len(entries) : entries[i].accession_number = f}
\* The filing failed and the failure is on its own record or log entry.
FailureRecorded(f) ==
    \/ "process" \in DOMAIN record[f] /\ record[f]["process"] = "traceback"
    \/ \E i \in EntriesOf(f, log_entries) :
          log_entries[i].status = "error" /\ log_entries[i].error_message # ""
\* The filing ran to its end without an error.
Completed(f) == "process" \in DOMAIN record[f] /\ record[f]["process"] = ""

\* C3: no error of a filing leaves process_one_file: the collecting loop never
\* raises, as long as a filing is unfinished the batch can take a step, a
\* failure is written to the record (or log entry) of the filing it happened
\* in and to no other, and the batch output holds one entry for every filing,
\* whatever the order the workers finish in.
C3_FilingsIsolated ==
    /\ bstate # "raised"
    /\ (bstate = "collecting") => ENABLED NextBatch
    /\ \A f \in Filings : f \in collected =>
          /\ rpc[f] = "done"
          /\ Cardinality(EntriesOf(f, log_entries)) = 1
          /\ Completed(f) \/ FailureRecorded(f)
          /\ ~(Completed(f) /\ FailureRecorded(f))
    /\ bstate = "returned" =>
          /\ \A f \in Filings : Cardinality(EntriesOf(f, output.log_entries)) = 1
          /\ Len(output.log_entries) = Cardinality(Filings)
          /\ output.n_processed + Len(errors) = output.n_total

\* Two workers: the first filing's fetch ended in a network fault, the second
\* finished first and completed; both are in the output.
C3_Witness ==
    /\ bstate = "returned"
    /\ record_workers = 2
    /\ Cardinality(Filings) = 2
    /\ FailureRecorded(1)
    /\ Completed(2)
    /\ output.log_entries[1].accession_number = 2
    /\ output.log_entries[2].accession_number = 1

\* C17: run never changes the row the caller passed to ProcessACSN: when
\* run_one_record is done, the row holds the keys and values it was given.
C17_RowNeverMutated ==
    \A f \in Filings : rpc[f] = "done" => record[f] = [accessionNumber |-> f]

\* What the data rows of the blocks from block k on come to, in document
\* order, each taken by itself: a block that holds "issuer" gives ValueError
\* when it has no header line or no data line, and else what parser2_row makes
\* of each of its data rows.
RECURSIVE RowOutcomes(_, _)
RowOutcomes(table_texts, k) ==
    IF k > Len(table_texts) THEN <<>>
    ELSE (IF ~TableHas(table_texts[k], ISSUER) THEN <<>>
          ELSE LET table_lines == block_lines(table_texts[k])
               IN  IF Len(table_lines) < 2 THEN <<ValueError>>
                   ELSE LET rows == data_lines(table_lines)
                        IN  [i \in 1..Len(rows) |->
                                parser2_row(rows[i], col_positions(table_lines[1]))])
         \o RowOutcomes(table_texts, k + 1)
\* The entries retained among outcomes.
RetainedOf(outcomes) ==
    LET kept == SelectSeq(outcomes, LAMBDA r : r # ValueError /\ r.t = "entry" /\ r.retained)
    IN  [i \in 1..Len(kept) |-> kept[i].entry]
\* The outcomes before the first ValueError.
BeforeFailure(outcomes) ==
    LET bad == {i \in DOMAIN outcomes : outcomes[i] = ValueError}
    IN  IF bad = {} THEN outcomes
        ELSE SubSeq(outcomes, 1, (CHOOSE m \in bad : \A x \in bad : m <= x) - 1)

\* C26: when parser2 has been called it has returned a list, whatever the
\* text, and get_parser goes on to parser3; the list is the entries retained from the rows before
\* the first block without header or data line and the first row whose numeric
\* field is no number: no later row and no later block adds an entry.
C26_PrefixOfRetained ==
    gpc = "parser3" =>
        /\ Len(gp_records) = 2
        /\ gp_records[2] = RetainedOf(BeforeFailure(RowOutcomes(req_text.table_texts, 1)))

\* After the block of three data lines comes a block whose first row has a
\* value that is no number: the two retained entries of the first block are
\* returned and the good row after the bad one is lost.
C26_Witness ==
    /\ gpc = "parser3"
    /\ req_text.table_texts = <<T_THREE, T_BAD>>
    /\ Len(gp_records[2]) = 2
    /\ Len(RetainedOf(RowOutcomes(req_text.table_texts, 1))) = 3

\* The accession numbers of the rows of the file.
CsvAcsns == {csv_acsns[i] : i \in DOMAIN csv_acsns}
\* The entries with status "error" among entries.
ErrorEntries(entries) == {i \in DOMAIN entries : entries[i].status = "error"}

\* What C25 says of every state.
C25_EveryState ==
    /\ \A a \in CsvAcsns :
          IF a \in existing_acsns
          THEN a \notin Filings /\ EntriesOf(a, log_entries) = {}
          ELSE a \in Filings /\ Cardinality(EntriesOf(a, log_entries)) <= 1
    /\ bstate = "returned" =>
          /\ \A a \in CsvAcsns \ existing_acsns :
                Cardinality(EntriesOf(a, output.log_entries)) = 1
          /\ Len(output.log_entries) = Cardinality(CsvAcsns \ existing_acsns)
          /\ output.n_total = Cardinality(CsvAcsns \ existing_acsns)
          /\ output.n_processed + Cardinality(ErrorEntries(output.log_entries))
                = output.n_total
    /\ bstate = "skipped" =>
          /\ CsvAcsns \subseteq existing_acsns
          /\ output.n_processed = 0
          /\ log_entries = <<>>
\* What C25 says of every step.
C25_EveryStep ==
    /\ existing_acsns' = existing_acsns
    /\ \A f \in Filings :
          /\ rpc[f] # "queued" => rpc'[f] # "queued"
          /\ rpc'[f] = "init" => rpc[f] \in {"queued", "init"}
          /\ rpc[f] = "done" => rpc'[f] = "done"

\* C25: with one worker or several and in whatever order the records finish,
\* the records process_one_file runs are the rows whose accession number is
\* not in existing_acsns; each of them is taken up once, never again once it
\* is done, and has one log entry in the output; a row whose accession number
\* is in existing_acsns is never run; n_processed plus the number of records
\* logged as errors is n_total; and no step changes existing_acsns.
C25_FilteredOnce == []C25_EveryState /\ [][C25_EveryStep]_vars

\* Two workers, the first row processed before: only the second is run, it
\* fails in the constructor and is the one record of the output.
C25_Witness ==
    /\ bstate = "returned"
    /\ record_workers = 2
    /\ existing_acsns = {1}
    /\ Filings = {2}
    /\ output.n_total = 1
    /\ output.n_processed = 0
    /\ Len(output.log_entries) = 1
    /\ output.log_entries[1].accession_number = 2
    /\ output.log_entries[1].status = "error"

\* The records whose run has returned: run has written record["process"].
RunReturned == {f \in Filings : "process" \in DOMAIN record[f]}

\* C28: the log entry of a record has status "success" exactly when run has
\* returned, also when run caught an exception and wrote the traceback to
\* record["process"]; it has status "error" exactly when the exception left
\* the constructor, before run wrote anything; and n_processed counts every
\* record whose run returned, the failed ones included.
C28_SuccessMeansReturned ==
    /\ \A f \in Filings : futures[f] # None =>
          /\ futures[f].kind = "result"
          /\ futures[f].log_entry.status = "success" <=> f \in RunReturned
          /\ futures[f].log_entry.status = "error" <=> DOMAIN record[f] = {"accessionNumber"}
          /\ futures[f].log_entry.status \in {"success", "error"}
    /\ bstate = "returned" =>
          /\ output.n_processed = Cardinality(RunReturned)
          /\ \A i \in DOMAIN output.log_entries :
                output.log_entries[i].status = "success"
                    <=> output.log_entries[i].accession_number \in RunReturned

\* Of two records the first failed inside run and is logged as a success and
\* counted; the second failed in the constructor and is logged as an error.
C28_Witness ==
    /\ bstate = "returned"
    /\ Filings = {1, 2}
    /\ 1 \in RunReturned
    /\ record[1]["process"] = "traceback"
    /\ DOMAIN record[2] = {"accessionNumber"}
    /\ \E i \in DOMAIN output.log_entries :
          /\ output.log_entries[i].accession_number = 1
          /\ output.log_entries[i].status = "success"
    /\ output.n_processed = 1
    /\ Len(errors) = 1

\* The fragments parser_llm has submitted and has still to submit, in order.
AllFragments == [i \in DOMAIN submitted |-> submitted[i].fragment] \o pending
\* What the submissions so far returned, one after the other; a submission
\* that raised adds nothing.
RECURSIVE Returned(_)
Returned(subs) ==
    IF subs = <<>> THEN <<>>
    ELSE (IF Head(subs).response.kind = "return" THEN Head(subs).response.entries ELSE <<>>)
            \o Returned(Tail(subs))
InFallback ==
    StrategiesRan /\ record_parser = 4 /\ gpc \in {"llm", "returned", "saved", "raised"}

\* C21: parser_llm submits, when the text has blocks, each block with an
\* issuer or CUSIP keyword once, in document order, and never the whole text;
\* when it has no block, the whole text once if it has such a keyword and
\* nothing otherwise.  The entries it returns are those the submissions
\* returned, in submission order.
C21_Submissions ==
    InFallback =>
        /\ req_text.table_texts # <<>> =>
              /\ \A i \in DOMAIN AllFragments :
                    /\ AllFragments[i].kind = "table"
                    /\ HasKeyword(req_text.table_texts[AllFragments[i].index])
              /\ \A i, j \in DOMAIN AllFragments :
                    i < j => AllFragments[i].index < AllFragments[j].index
              /\ \A k \in DOMAIN req_text.table_texts :
                    HasKeyword(req_text.table_texts[k]) =>
                        \E i \in DOMAIN AllFragments : AllFragments[i] = Table(k)
        /\ req_text.table_texts = <<>> =>
              AllFragments = IF text_has(req_text, ISSUER) \/ text_has(req_text, CUSIP)
                             THEN <<Document>> ELSE <<>>
        /\ gpc = "llm" => table_res = Returned(submitted)
        /\ gpc \in {"returned", "saved"} =>
              /\ pending = <<>>
              /\ Len(result) = Len(Returned(submitted))
              /\ \A j \in DOMAIN result :
                    \A f \in DOMAIN Returned(submitted)[j] \ SeqToSet(NumericFields) :
                        result[j][f] = Returned(submitted)[j][f]
\* Two blocks with a keyword, submitted one after the other, both answered.
C21_Witness ==
    /\ InFallback
    /\ gpc = "returned"
    /\ Len(req_text.table_texts) = 2
    /\ Len(submitted) = 2
    /\ submitted[1].fragment = Table(1)
    /\ submitted[2].fragment = Table(2)
    /\ submitted[1].response.kind = "return"
    /\ submitted[2].response.kind = "return"
    /\ Len(result) = 3


(***************************************************************************)
(* ProcessACSN.run on one row                                              *)
(* An index page is given by what BeautifulSoup finds in it: whether it    *)
(* has a table, and the tr elements of the first one.                      *)
(***************************************************************************)

\* The most tr elements of the table of an index page.
MaxListing == 2

\* str.zfill(width) of a str of digits
zfill(s, width) ==
    IF Len(s) >= width THEN s ELSE [i \in 1..(width - Len(s)) |-> "0"] \o s
\* s.replace("-", "")
RECURSIVE RemoveDashes(_)
RemoveDashes(s) ==
    IF s = <<>> THEN <<>>
    ELSE IF Head(s) = "-" THEN RemoveDashes(Tail(s))
         ELSE <<Head(s)>> \o RemoveDashes(Tail(s))

\* The row run is given: its cik and its accession number.
ROW_CIK == <<"1">>
ROW_ACSN == <<"1", "-", "2", "4", "-", "1">>
SEC_GOV == <<"h", "t", "t", "p", "s", ":", "/", "/", "w", "w", "w", ".", "s", "e", "c", ".", "g", "o", "v">>
\* self.cik, and self.full_txt_url as __init__ builds it
self_cik == zfill(ROW_CIK, 10)
init_full_txt_url ==
    SEC_GOV \o <<"/", "A", "r", "c", "h", "i", "v", "e", "s", "/", "e", "d", "g", "a", "r", "/", "d", "a", "t", "a", "/">> \o self_cik \o <<"/">> \o RemoveDashes(ROW_ACSN)
        \o <<"/">> \o ROW_ACSN \o <<".", "t", "x", "t">>

\* A tr element: the text of its description cell and its first a element.
Anchor(text, href) == [k |-> "a", text |-> text, href |-> href]
TR_PRIMARY == [desc |-> <<"1", "3", "F", "-", "H", "R">>, a |-> Anchor(<<"p", "r", "i", "m", "a", "r", "y", "_", "d", "o", "c", ".", "h", "t", "m", "l">>, <<"/", "d", "/", "1", "/", "p", ".", "h", "t", "m", "l">>)]
TR_TABLE_HTML == [desc |-> <<"I", "N", "F", "O", "R", "M", "A", "T", "I", "O", "N", " ", "T", "A", "B", "L", "E">>, a |-> Anchor(<<"f", "o", "r", "m", "1", "3", "f", ".", "h", "t", "m", "l">>, <<"/", "d", "/", "1", "/", "t", ".", "h", "t", "m", "l">>)]
TR_TABLE_XML == [desc |-> <<"I", "N", "F", "O", "R", "M", "A", "T", "I", "O", "N", " ", "T", "A", "B", "L", "E">>, a |-> Anchor(<<"f", "o", "r", "m", "1", "3", "f", ".", "x", "m", "l">>, <<"/", "d", "/", "1", "/", "t", ".", "x", "m", "l">>)]
TR_COMPLETE == [desc |-> <<"C", "o", "m", "p", "l", "e", "t", "e", " ", "s", "u", "b", "m", "i", "s", "s", "i", "o", "n">>, a |-> Anchor(<<"1", "-", "2", "4", "-", "1", ".", "t", "x", "t">>, <<"/", "d", "/", "1", "/", "1", "-", "2", "4", "-", "1", ".", "t", "x", "t">>)]
TR_HEAD == [desc |-> <<"I", "N", "F", "O", "R", "M", "A", "T", "I", "O", "N", " ", "T", "A", "B", "L", "E">>, a |-> Absent]
TrChoices == {TR_PRIMARY, TR_TABLE_HTML, TR_TABLE_XML, TR_COMPLETE, TR_HEAD}
NO_TABLE == [table |-> FALSE, all_tr |-> <<>>]
Pages == {NO_TABLE} \cup {[table |-> TRUE, all_tr |-> trs] : trs \in SeqsUpTo(TrChoices, MaxListing)}
PageResp(s, page) == [kind |-> "resp", status |-> s, page |-> page]
IndexResponses ==
    {Exc("Timeout"), PageResp(404, NO_TABLE), PageResp(503, NO_TABLE)}
        \cup {PageResp(200, page) : page \in Pages}

\* str(tr).lower()
tr_str(tr) ==
    Lower(<<"<", "t", "r", ">", "<", "t", "d", ">">> \o tr.desc \o <<"<", "/", "t", "d", ">">>
            \o (IF tr.a = Absent THEN <<>>
                ELSE <<"<", "a", " ", "h", "r", "e", "f", "=", "\"">> \o tr.a.href \o <<"\"", ">">> \o tr.a.text \o <<"<", "/", "a", ">">>)
            \o <<"<", "/", "t", "r", ">">>)

\* The loop over all_tr from the tr at k on: info_html is the link of the last
\* tr whose text holds "table" and whose first a has ".html" in its text.
RECURSIVE scan_all_tr(_, _, _)
scan_all_tr(all_tr, k, info_html) ==
    IF k > Len(all_tr) THEN info_html
    ELSE LET tr == all_tr[k]
         IN  IF tr.a # Absent /\ Contains(tr_str(tr), <<"t", "a", "b", "l", "e">>)
                              /\ Contains(tr.a.text, <<".", "h", "t", "m", "l">>)
             THEN scan_all_tr(all_tr, k + 1, SEC_GOV \o tr.a.href)
             ELSE scan_all_tr(all_tr, k + 1, info_html)

\* get_html_info_table once sec_get has returned resp.  all_tr[-1] raises
\* IndexError on a table without tr.
get_html_info_table(resp) ==
    IF resp.status # 200 \/ ~resp.page.table
    THEN [raised |-> FALSE, info_html |-> <<>>, complete_txt |-> <<>>]
    ELSE LET all_tr == resp.page.all_tr
             info_html == scan_all_tr(all_tr, 1, <<>>)
         IN  IF all_tr = <<>>
             THEN [raised |-> TRUE, info_html |-> <<>>, complete_txt |-> <<>>]
             ELSE [raised |-> FALSE, info_html |-> info_html,
                   complete_txt |-> IF all_tr[Len(all_tr)].a # Absent
                                    THEN SEC_GOV \o all_tr[Len(all_tr)].a.href
                                    ELSE <<>>]

InitRun ==
    /\ IdleLine
    /\ IdleFetch
    /\ IdleExtract
    /\ IdleBatch
    /\ IdleSave
    /\ IdleMult
    /\ IdleLlm
    /\ IdlePool
    /\ IdleFile
    /\ index_response \in IndexResponses
    /\ at_run = "start"
    /\ index_res = None
    /\ full_txt_url = init_full_txt_url
    /\ sec_get_urls = <<>>
    /\ self_record = [accessionNumber |-> ROW_ACSN]
    /\ save_data_got = None

\* except Exception as e: self.record["process"] = str(traceback.format_exc())
FilingExcept ==
    /\ self_record' = Put(self_record, "process", "traceback")
    /\ at_run' = "returned"

\* self.record["bq_status"] = "process"
FilingStart ==
    /\ at_run = "start"
    /\ self_record' = Put(self_record, "bq_status", "process")
    /\ at_run' = "index"
    /\ UNCHANGED <<index_response, index_res, full_txt_url, sec_get_urls, save_data_got>>
    /\ UNCHANGED outsideRun

\* run keeping the url of __init__ whatever the index page lists.
full_txt_url_kept(res, url) == url

\* if index_res.get("complete_txt"): self.full_txt_url = index_res.get("complete_txt")
full_txt_url_after(res, url) ==
    IF res.complete_txt # <<>> THEN res.complete_txt ELSE url

\* index_res = self.get_html_info_table() and the assignment that follows
FilingIndex ==
    /\ at_run = "index"
    /\ IF index_response.kind = "exc"
       THEN FilingExcept /\ UNCHANGED <<index_res, full_txt_url>>
       ELSE LET res == get_html_info_table(index_response)
            IN  IF res.raised
                THEN FilingExcept /\ UNCHANGED <<index_res, full_txt_url>>
                ELSE /\ index_res' = [info_html |-> res.info_html,
                                      complete_txt |-> res.complete_txt]
                     /\ full_txt_url' = full_txt_url_after(res, full_txt_url)
                     /\ at_run' = "multiplies"
                     /\ UNCHANGED self_record
    /\ UNCHANGED <<index_response, sec_get_urls, save_data_got>>
    /\ UNCHANGED outsideRun

\* What sec_get does for check_value_multiplies.
MultipliesOutcomes ==
    {Exc("Timeout"), TextResp(404, <<>>), TextResp(200, <<>>), TextResp(200, <<"x", "$", "1", "0">>)}

\* The url run passes to check_value_multiplies.
multiplies_url(res, url) == IF res.info_html # <<>> THEN res.info_html ELSE url

\* self.record["url_html_info_table"] = ...;
\* self.record["value_multiplies"] = self.check_value_multiplies(...)
FilingMultiplies(o) ==
    /\ at_run = "multiplies"
    /\ sec_get_urls' = Append(sec_get_urls, [by |-> "check_value_multiplies",
                                            url |-> multiplies_url(index_res, full_txt_url),
                                            got |-> o])
    /\ IF o.kind = "exc"
       THEN /\ self_record' = Put(Put(self_record, "url_html_info_table", index_res.info_html),
                                  "process", "traceback")
            /\ at_run' = "returned"
       ELSE /\ self_record' = Put(Put(self_record, "url_html_info_table", index_res.info_html),
                                  "value_multiplies", check_value_multiplies(o))
            /\ at_run' = "info_table"
    /\ UNCHANGED <<index_response, index_res, full_txt_url, save_data_got>>
    /\ UNCHANGED outsideRun

\* What get_parser does on a fetched text: it raises, before or after the
\* stamp, or stamps record["parser"] and returns its entries.
FilingParserResults ==
    {[raised |-> TRUE, parser |-> 0, entries |-> <<>>],
     [raised |-> TRUE, parser |-> 4, entries |-> <<>>],
     [raised |-> FALSE, parser |-> 1, entries |-> <<LLM_FULL>>],
     [raised |-> FALSE, parser |-> 4, entries |-> <<>>]}

\* self.info_table_records = self.get_info_table();
\* self.record["info_table_len"] = len(self.info_table_records)
FilingInfoTable(o, r) ==
    /\ at_run = "info_table"
    /\ sec_get_urls' = Append(sec_get_urls, [by |-> "get_info_table", url |-> full_txt_url,
                                            got |-> o])
    /\ LET rec == Put(self_record, "raw_txt", "")
       IN  IF o.kind = "exc"
           THEN /\ self_record' = Put(rec, "process", "traceback")
                /\ at_run' = "returned"
                /\ UNCHANGED save_data_got
           ELSE IF o.status # 200
           THEN /\ self_record' = Put(rec, "info_table_len", 0)
                /\ save_data_got' = [info_table_records |-> <<>>]
                /\ at_run' = "save"
           ELSE LET fetched == Put(rec, "raw_txt", "path")
                    stamped == IF r.parser = 0 THEN fetched
                               ELSE Put(fetched, "parser", r.parser)
                IN  IF r.raised
                    THEN /\ self_record' = Put(stamped, "process", "traceback")
                         /\ at_run' = "returned"
                         /\ UNCHANGED save_data_got
                    ELSE /\ self_record' = Put(stamped, "info_table_len", Len(r.entries))
                         /\ save_data_got' = [info_table_records |-> r.entries]
                         /\ at_run' = "save"
    /\ UNCHANGED <<index_response, index_res, full_txt_url>>
    /\ UNCHANGED outsideRun

\* run recording a failed upload as the filing's error.
FilingSaveUploadFatal(uploaded) ==
    /\ at_run = "save"
    /\ self_record' = Put(Put(self_record, "upload_to_bucket_status",
                              IF uploaded THEN "Success" ELSE "Error"),
                          "process", IF uploaded THEN "" ELSE "traceback")
    /\ at_run' = "returned"
    /\ UNCHANGED <<index_response, index_res, full_txt_url, sec_get_urls, save_data_got>>
    /\ UNCHANGED outsideRun

\* self.save_data(); self.record["process"] = "".  save_data catches what its
\* upload raises and writes it to upload_to_bucket_status.
FilingSave(uploaded) ==
    /\ at_run = "save"
    /\ self_record' = Put(Put(self_record, "upload_to_bucket_status",
                              IF uploaded THEN "Success" ELSE "Error"),
                          "process", "")
    /\ at_run' = "returned"
    /\ UNCHANGED <<index_response, index_res, full_txt_url, sec_get_urls, save_data_got>>
    /\ UNCHANGED outsideRun

NextRun ==
    \/ FilingStart
    \/ FilingIndex
    \/ \E o \in MultipliesOutcomes : FilingMultiplies(o)
    \/ \E o \in {Exc("Timeout"), Resp(200), Resp(404), Resp(429), Resp(503)},
          r \in FilingParserResults : FilingInfoTable(o, r)
    \/ \E uploaded \in BOOLEAN : FilingSave(uploaded)

SpecRun == InitRun /\ [][NextRun]_vars


\* The sec_get calls run has made for check_value_multiplies and for
\* get_info_table.
CallsBy(who) == {i \in DOMAIN sec_get_urls : sec_get_urls[i].by = who}

\* C22 as stated: when the index lookup leaves complete_txt empty the document
\* fetch goes to the url built from cik and accession number, and when it
\* leaves info_html empty the multiplier detection goes to that same built url.
C22_Original ==
    /\ \A i \in CallsBy("get_info_table") :
         index_res.complete_txt = <<>> => sec_get_urls[i].url = init_full_txt_url
    /\ \A i \in CallsBy("check_value_multiplies") :
         index_res.info_html = <<>> => sec_get_urls[i].url = init_full_txt_url

\* C22: the document fetch goes to complete_txt when the index lookup found
\* one and to the url built from cik and accession number otherwise; the
\* multiplier detection goes to info_html when the lookup found one and
\* otherwise to the url of the document fetch.
C22_FallbackUrls ==
    /\ \A i \in CallsBy("get_info_table") :
         sec_get_urls[i].url = IF index_res.complete_txt = <<>> THEN init_full_txt_url
                               ELSE index_res.complete_txt
    /\ \A i \in CallsBy("check_value_multiplies") :
         sec_get_urls[i].url =
            IF index_res.info_html # <<>> THEN index_res.info_html
            ELSE IF index_res.complete_txt = <<>> THEN init_full_txt_url
            ELSE index_res.complete_txt
C22_Witness ==
    /\ Len(sec_get_urls) = 2
    /\ index_res.info_html = <<>>
    /\ index_res.complete_txt # <<>>
    /\ index_res.complete_txt # init_full_txt_url
    /\ sec_get_urls[1].by = "check_value_multiplies"
    /\ sec_get_urls[1].url = index_res.complete_txt
    /\ sec_get_urls[2].url = index_res.complete_txt

\* The link of a tr that a table-labelled document with a markup extension
\* could have given info_html.
TableDocumentLinks(all_tr) ==
    {SEC_GOV \o all_tr[k].a.href : k \in {j \in DOMAIN all_tr :
        /\ all_tr[j].a # Absent
        /\ Contains(Lower(all_tr[j].desc), <<"t", "a", "b", "l", "e">>)
        /\ EndsWith(all_tr[j].a.text, <<".", "h", "t", "m", "l">>)}}

\* C23: once get_html_info_table has been called on a fetched index page it
\* has returned: both urls empty when the status is not 200 or the page has no
\* tr to list; otherwise info_html is the link of a table-labelled tr whose
\* document ends in .html, or empty when there is none, and complete_txt is the
\* link of the last tr.
C23_ResolveReturns ==
    (index_response.kind = "resp" /\ at_run \notin {"start", "index"}) =>
        /\ index_res # None
        /\ LET all_tr == index_response.page.all_tr
           IN  IF index_response.status # 200 \/ all_tr = <<>>
               THEN index_res.info_html = <<>> /\ index_res.complete_txt = <<>>
               ELSE /\ IF TableDocumentLinks(all_tr) = {}
                       THEN index_res.info_html = <<>>
                       ELSE index_res.info_html \in TableDocumentLinks(all_tr)
                    /\ index_res.complete_txt =
                          IF all_tr[Len(all_tr)].a = Absent THEN <<>>
                          ELSE SEC_GOV \o all_tr[Len(all_tr)].a.href

\* C27: when the sec_get call of get_info_table has returned a response whose
\* status is not 200, record["parser"] is not set, info_table_len is 0,
\* save_data is handed the empty list, and run ends with process = "".
C27_NoDocument ==
    \A i \in CallsBy("get_info_table") :
        (sec_get_urls[i].got.kind = "resp" /\ sec_get_urls[i].got.status # 200) =>
            /\ "parser" \notin DOMAIN self_record
            /\ self_record.info_table_len = 0
            /\ save_data_got = [info_table_records |-> <<>>]
            /\ at_run \in {"save", "returned"}
            /\ at_run = "returned" => self_record.process = ""
C27_Witness ==
    /\ at_run = "returned"
    /\ Len(sec_get_urls) = 2
    /\ sec_get_urls[2].got = Resp(503)
    /\ self_record.upload_to_bucket_status = "Error"
    /\ self_record.process = ""

(***************************************************************************)
(* parse_line of parser3 on one line                                       *)
(* The line is a name, a title, a cusip and then words two spaces apart.   *)
(***************************************************************************)

\* The most words after the cusip.
MaxLineTokens == 7

LineTokens == {<<"7">>, <<"1", ",", "5">>, <<"S", "H">>}
LINE_HEAD == <<"A", "C", "M", "E", " ", " ", "C", "O", "M", " ", " ", "1", "2", "3">>
RECURSIVE JoinTokens(_)
JoinTokens(tokens) ==
    IF tokens = <<>> THEN <<>>
    ELSE <<" ", " ">> \o Head(tokens) \o JoinTokens(Tail(tokens))
DataLine(tokens) == LINE_HEAD \o JoinTokens(tokens)

InitLine ==
    /\ IdleFetch
    /\ IdleExtract
    /\ IdleBatch
    /\ IdleSave
    /\ IdleMult
    /\ IdleLlm
    /\ IdlePool
    /\ IdleFile
    /\ IdleRun
    /\ line_tokens \in SeqsUpTo(LineTokens, MaxLineTokens)
    /\ parse_line_got = None

\* entry = parse_line(line)
ParseLine ==
    /\ parse_line_got = None
    /\ parse_line_got' = parse_line(DataLine(line_tokens))
    /\ UNCHANGED line_tokens
    /\ UNCHANGED outsideLine

NextLine == ParseLine

SpecLine == InitLine /\ [][NextLine]_vars

\* The numeric words of the line that follow the value and the share amount:
\* value and share amount are the first and the second word when they are
\* numeric.
TakenAmounts ==
    IF line_tokens = <<>> \/ ~IsNumWord(line_tokens[1]) THEN 0
    ELSE IF Len(line_tokens) >= 2 /\ IsNumWord(line_tokens[2]) THEN 2 ELSE 1
RemainingNumbers ==
    SelectSeq(SubSeq(line_tokens, TakenAmounts + 1, Len(line_tokens)), IsNumWord)
CountedBack(k) ==
    IF Len(RemainingNumbers) >= k
    THEN Str(RemainingNumbers[Len(RemainingNumbers) - k + 1]) ELSE Str(<<>>)

\* The numeric words among the words of the three word fields of an entry.
NumericWordsOf(entry) ==
    LET words == split(entry.shares_or_percent_type.v) \o split(entry.put_call.v)
                    \o split(entry.investment_discretion.v)
    IN  {i \in DOMAIN words : IsNumWord(words[i])}

\* C24: in the dict parse_line returns, voting_authority_none is the last of
\* the numeric words left after value and share amount, shared the one before
\* it, sole the third and other_manager the fourth from the end, each empty
\* when there are not that many; a numeric word before the last four is in no
\* field, so the word fields hold no more numeric words than the four assigned.
C24_VotingFromTheEnd ==
    (parse_line_got # None /\ parse_line_got # ValueError) =>
        /\ parse_line_got.voting_authority_none = CountedBack(1)
        /\ parse_line_got.voting_authority_shared = CountedBack(2)
        /\ parse_line_got.voting_authority_sole = CountedBack(3)
        /\ parse_line_got.other_manager = CountedBack(4)
        /\ Cardinality(NumericWordsOf(parse_line_got)) <= 4

=========================================================================
